---- MODULE Spec2Model ----
(***************************************************************************)
(* A model of the login / credential core of airbitz-core                 *)
(* (src/src/ABC_Login.c): the account directory, the key cache, the       *)
(* CarePackage / LoginPackage documents, the login server as the client   *)
(* sees it, and the public operations create, signIn, setRecovery,        *)
(* changePassword, getRecoveryQuestions and checkRecoveryAnswers, each    *)
(* as the sequence of externally visible steps of its C function.  The    *)
(* URL system (src/src/ABC_URL.c), the watcher thread of the command-line *)
(* tool (src/cli/Util.cpp) and outputsFinalize                            *)
(* (src/abcd/spend/Outputs.cpp) are modelled beside it, each on state of  *)
(* its own.                                                                *)
(*                                                                         *)
(* Values.  Byte strings that the code only copies and compares are       *)
(* tagged tuples; user names, passwords and answers are strings, so that  *)
(* L || P is string concatenation as in ABC_BUF_APPEND.  A NULL buffer or *)
(* pointer is the empty tuple, a NULL C string is NoStr.                  *)
(***************************************************************************)
EXTENDS Integers, Sequences, FiniteSets, TLC

\* ------------------------------------------------------------------ bounds
\* Public operations started in one behaviour: with every input (MaxOps) and
\* with one password and one answer (MaxOpsDeep).
MaxOps == 4
MaxOpsDeep == 5
\* Injected failures (server, disk, scrypt, sync engine) in one behaviour.
MaxFaults == 1
\* New installations in one behaviour.
MaxWipes == 1
\* WatcherThread objects constructed in one behaviour.
MaxWatchers == 2
\* Outputs in the list handed to outputsFinalize.
MaxOutputs == 2

\* ------------------------------------------------------------------ inputs
Users == {"a", "ab"}
OneUser == {"a"}
OnePassword == {"bc"}
OneAnswer == {"x"}
Passwords == {"bc", "c"}
Answers == {"x", "y"}
Questions == {"q"}

NULL == <<>>
NoStr == "<null>"
NoDir == 0 - 1

\* An operation creates at most one account directory.
Slots == 0 .. ((IF MaxOps > MaxOpsDeep THEN MaxOps ELSE MaxOpsDeep) - 1)

\* ------------------------------------------------------------- error codes
Ok == "Ok"
Error == "Error"
BadPassword == "BadPassword"
AccountAlreadyExists == "AccountAlreadyExists"
AccountDoesNotExist == "AccountDoesNotExist"
NoRecoveryQuestions == "NoRecoveryQuestions"
DecryptFailure == "DecryptFailure"
JSONError == "JSONError"
NULLPtr == "NULLPtr"
ServerError == "ServerError"
FileError == "FileError"
SysError == "SysError"
NotInitialized == "NotInitialized"
Reinitialization == "Reinitialization"
URLError == "URLError"
ParseError == "ParseError"
SpendDust == "SpendDust"

\* ------------------------------------------------------- crypto primitives
\* ABC_CryptoCreateSNRPForServer: the fixed, server-shared parameter set.
SNRPForServer == <<"snrp", 1, 0>>
\* ABC_CryptoCreateSNRPForClient: a freshly salted parameter set; salt n is
\* the random salt, id tells SNRP2/3/4 apart.
SNRPForClient(id, n) == <<"snrp", id, n>>

\* ABC_CryptoScryptSNRP: deterministic, collision free in (input, snrp).
Scrypt(in, snrp) == <<"scrypt", in, snrp>>

\* ABC_CryptoEncryptJSONObject: an envelope of the plaintext under the key
\* with a random IV.
Encrypt(pt, key, iv) == <<"env", pt, key, iv>>
EnvPlain(env) == env[2]
EnvKey(env) == env[3]

\* ABC_CryptoDecryptJSONObject: NULL envelope -> NULLPtr, wrong key (MAC
\* mismatch) -> DecryptFailure.
DecryptCC(env, key) ==
    IF env = NULL THEN NULLPtr
    ELSE IF EnvKey(env) = key THEN Ok
    ELSE DecryptFailure
DecryptPlain(env) == EnvPlain(env)

\* ABC_CryptoCreateRandomData(ACCOUNT_MK_LENGTH) / (SYNC_KEY_LENGTH), and
\* ABC_CryptoHexEncode of the latter.
RandomMK(n) == <<"mk", n>>
RandomSyncKey(n) == <<"sync", n>>
HexEncode(b) == <<"hex", b>>

\* ---------------------------------------------------------------- packages
\* CarePackage.json = {ERQ?, SNRP2, SNRP3, SNRP4}
CarePackage(erq, s2, s3, s4) == <<"care", erq, s2, s3, s4>>
CareERQ(c) == c[2]
CareSNRP2(c) == c[3]
CareSNRP3(c) == c[4]
CareSNRP4(c) == c[5]

\* LoginPackage.json = {MK (EMK), SyncKey (ESyncKey), ELP2?, ELRA3?}
LoginPackage(emk, esync, elp2, elra3) == <<"login", emk, esync, elp2, elra3>>
LoginEMK(l) == l[2]
LoginESyncKey(l) == l[3]
LoginELP2(l) == l[4]
LoginELRA3(l) == l[5]

\* ------------------------------------------------------------------- state
VARIABLES
    disk,       \* the account directories Account_<n> of the local store
    server,     \* the accounts the login server holds, by L1
    cache,      \* gaAccountKeysCacheArray [0 .. gAccountKeysCacheCount)
    gCarePackageCache,  \* the care package kept for recovery on a new device
    pc,         \* position inside the running public operation, or "idle"
    ctx,        \* arguments and locals of the running operation
    ret,        \* the last completed operation and what it returned
    rnd,        \* random values drawn so far (each draw is fresh)
    budget,     \* public operations the behaviour may still start
    nfaults,    \* failures injected
    nwipes,     \* new installations so far
    created,    \* per user: MK and hex sync key of the account as created
    lockDepth,  \* times the calling thread holds the recursive mutex
    gbInitialized,  \* ABC_URL.c: the URL system is initialized
    urlRet,     \* the last call into ABC_URL.c and what came of it
    watcher,    \* cli/Util.cpp: the WatcherThread object and its thread
    spend       \* spend/Outputs.cpp: the output list being finalized

\* The state outside the login core, which no login operation touches.
otherModules == <<gbInitialized, urlRet, watcher, spend>>

vars == <<disk, server, cache, gCarePackageCache, pc, ctx, ret, rnd, budget,
          nfaults, nwipes, created, lockDepth, otherModules>>

\* ------------------------------------------------------- account directory
\* One directory Account_<n>: UserName.json, CarePackage.json,
\* LoginPackage.json and the sync directory ("none", "dir" once created,
\* "repo" once initialised, "synced" once synced with the server).
NoSlot == [exists |-> FALSE, name |-> NoStr, care |-> NULL, login |-> NULL,
           sync |-> "none"]
EmptySlot == [NoSlot EXCEPT !.exists = TRUE]

Min(S) == CHOOSE x \in S : \A y \in S : x <= y

SlotsOf(d, u) == {n \in Slots : d[n].exists /\ d[n].name = u}

\* ABC_LoginDirGetNumber: the account number of the user, -1 when no
\* directory names the user.
LoginDirGetNumber(d, u) == IF SlotsOf(d, u) = {} THEN NoDir ELSE Min(SlotsOf(d, u))

\* ABC_LoginDirExists
LoginDirExists(d, u) == LoginDirGetNumber(d, u) >= 0

FreeSlots(d) == {n \in Slots : ~d[n].exists}
\* ABC_LoginDirNewNumber: the lowest unused account number.
LoginDirNewNumber(d) == Min(FreeSlots(d))

\* ABC_FileIODeleteRecursive(szAccountDir): a NULL path deletes nothing.
DeleteRecursive(d, n) == IF n = NoDir THEN d ELSE [d EXCEPT ![n] = NoSlot]

\* ABC_SyncRepo (line 352 of ABC_LoginCreate, line 440 of ABC_LoginFetch) left
\* out.
SyncRepoNotRun(d, n) == d

\* ABC_SyncRepo on the sync directory of Account_<n>.
SyncRepo(d, n) == [d EXCEPT ![n].sync = "synced"]

\* --------------------------------------------------------------- key cache
\* tAccountKeys.  `freed` marks a record released by ABC_CLEAR_FREE while the
\* cache array still points at it.
NoKeys == [accountNum |-> 0, szUserName |-> NoStr, szPassword |-> NoStr,
           szRepoAcctKey |-> NULL,
           pSNRP1 |-> NULL, pSNRP2 |-> NULL, pSNRP3 |-> NULL, pSNRP4 |-> NULL,
           MK |-> NULL, L |-> NoStr, L1 |-> NULL, P |-> NoStr, LP1 |-> NULL,
           LRA |-> NoStr, LRA1 |-> NULL, L4 |-> NULL, RQ |-> NULL,
           LP |-> NoStr, LP2 |-> NULL, LRA3 |-> NULL, freed |-> FALSE]

\* ABC_LoginFreeAccountKeys (lines 1339-1366): the record after the call.
\* The strings, the SNRPs and the buffers L, L1, P, LP1, LRA, LRA1, L4, RQ,
\* LP, LP2 and LRA3 are wiped and released (ABC_FREE_STR, ABC_BUF_FREE); no
\* line of the function touches MK.
LoginFreeAccountKeys(k) ==
    [k EXCEPT !.szUserName = NoStr, !.szPassword = NoStr,
              !.szRepoAcctKey = NULL,
              !.pSNRP1 = NULL, !.pSNRP2 = NULL, !.pSNRP3 = NULL, !.pSNRP4 = NULL,
              !.L = NoStr, !.L1 = NULL, !.P = NoStr, !.LP1 = NULL,
              !.LRA = NoStr, !.LRA1 = NULL, !.L4 = NULL, !.RQ = NULL,
              !.LP = NoStr, !.LP2 = NULL, !.LRA3 = NULL]

\* The secret fields of tAccountKeys (lines 43-65) a record still holds.
SecretStrings == {"szPassword", "P", "LP", "LRA"}
SecretBuffers == {"szRepoAcctKey", "MK", "L1", "LP1", "LRA1", "L4", "RQ",
                  "LP2", "LRA3"}
HeldSecrets(k) ==
    {f \in SecretStrings : k[f] # NoStr} \cup {f \in SecretBuffers : k[f] # NULL}

\* Lines 1318-1328 of ABC_LoginClearKeyCache: ABC_LoginFreeAccountKeys on
\* every record of the array, then the array is released.  Gives the secret
\* fields that the released records still hold.
HeldAfterClear(c) ==
    UNION {HeldSecrets(LoginFreeAccountKeys(c[i])) : i \in 1 .. Len(c)}

\* ABC_LoginFreeAccountKeys followed by ABC_CLEAR_FREE of the record: every
\* field it frees is zeroed (MK is not among them), then the record itself is
\* wiped and released.
FreedKeys == [NoKeys EXCEPT !.freed = TRUE]

\* ABC_LoginKeyFromCacheByName: index of the first entry of that name, 0 when
\* there is none.  A released record no longer holds a name.
Matches(c, u) == {i \in 1 .. Len(c) : ~c[i].freed /\ c[i].szUserName = u}
LoginKeyFromCacheByName(c, u) == IF Matches(c, u) = {} THEN 0 ELSE Min(Matches(c, u))

\* ABC_BUF_DUP followed by ABC_BUF_APPEND: appending a NULL buffer adds
\* nothing.
BufAppend(a, b) == a \o (IF b = NoStr THEN "" ELSE b)

\* ABC_LoginAddToKeyCache: AccountAlreadyExists when an entry of that name is
\* cached, else the record is appended.
AddToKeyCacheCC(c, k) ==
    IF LoginKeyFromCacheByName(c, k.szUserName) # 0 THEN AccountAlreadyExists ELSE Ok
AddToKeyCache(c, k) ==
    IF AddToKeyCacheCC(c, k) = Ok THEN Append(c, k) ELSE c

\* The first part of ABC_LoginCacheKeys (lines 1479-1524): the entry of the
\* user, created from UserName.json and CarePackage.json when it is not
\* cached.  Gives cc, the cache and the index of the entry.
CacheKeysLoad(c, d, u, rdFail) ==
    LET found == LoginKeyFromCacheByName(c, u)
        n     == LoginDirGetNumber(d, u)
    IN  IF found # 0 THEN [cc |-> Ok, cache |-> c, idx |-> found]
        ELSE IF n < 0 THEN [cc |-> AccountDoesNotExist, cache |-> c, idx |-> 0]
        ELSE IF rdFail \/ d[n].care = NULL
             THEN [cc |-> FileError, cache |-> c, idx |-> 0]
        ELSE LET k == [NoKeys EXCEPT
                         !.accountNum = n,
                         !.szUserName = u,
                         !.pSNRP1 = SNRPForServer,
                         !.pSNRP2 = CareSNRP2(d[n].care),
                         !.pSNRP3 = CareSNRP3(d[n].care),
                         !.pSNRP4 = CareSNRP4(d[n].care),
                         !.L = u,
                         !.L1 = Scrypt(u, SNRPForServer),
                         !.L4 = Scrypt(u, CareSNRP4(d[n].care))]
             IN  [cc |-> Ok, cache |-> Append(c, k), idx |-> Len(c) + 1]

\* Lines 1561-1623 without the comparison of lines 1615-1622: a record that
\* holds a password takes any password.
CacheKeysPasswordUnchecked(k, lp, pw) ==
    IF pw = NoStr \/ k.szPassword # NoStr THEN [cc |-> Ok, k |-> k]
    ELSE IF DecryptCC(LoginEMK(lp), Scrypt(BufAppend(k.L, pw), k.pSNRP2)) # Ok
         THEN [cc |-> BadPassword, k |-> k]
    ELSE [cc |-> Ok,
          k |-> [k EXCEPT !.szPassword = pw,
                          !.MK = DecryptPlain(LoginEMK(lp)),
                          !.P = pw,
                          !.LP = BufAppend(k.L, pw),
                          !.LP2 = Scrypt(BufAppend(k.L, pw), k.pSNRP2),
                          !.LRA3 = IF LoginELRA3(lp) = NULL THEN k.LRA3
                                   ELSE DecryptPlain(LoginELRA3(lp))]]

\* The password part of ABC_LoginCacheKeys (lines 1561-1623) on entry k with
\* login package lp: cc and the entry.
CacheKeysPassword(k, lp, pw) ==
    IF pw = NoStr THEN [cc |-> Ok, k |-> k]
    ELSE IF k.szPassword # NoStr
         THEN [cc |-> IF k.szPassword = pw THEN Ok ELSE BadPassword, k |-> k]
    ELSE LET LP  == BufAppend(k.L, pw)
             LP2 == Scrypt(LP, k.pSNRP2)
             ccMK == DecryptCC(LoginEMK(lp), LP2)
             ccLRA3 == IF LoginELRA3(lp) = NULL THEN Ok
                       ELSE DecryptCC(LoginELRA3(lp), LP2)
         IN  IF ccMK = DecryptFailure THEN [cc |-> BadPassword, k |-> k]
             ELSE IF ccMK # Ok THEN [cc |-> ccMK, k |-> k]
             ELSE IF ccLRA3 # Ok THEN [cc |-> ccLRA3, k |-> k]
             ELSE [cc |-> Ok,
                   k |-> [k EXCEPT
                            !.szPassword = pw,
                            !.MK = DecryptPlain(LoginEMK(lp)),
                            !.P = pw,
                            !.LP = LP,
                            !.LP2 = LP2,
                            !.LRA3 = IF LoginELRA3(lp) = NULL THEN k.LRA3
                                     ELSE DecryptPlain(LoginELRA3(lp))]]

\* Lines 1535-1623 of ABC_LoginCacheKeys on entry i of cache c1 and login
\* package lp: the sync key is decrypted under L4 (a DecryptFailure is
\* reported as BadPassword), then the password part runs.
CacheKeysStore(c1, i, pwd) ==
    [cc |-> pwd.cc, cache |-> [c1 EXCEPT ![i] = pwd.k], idx |-> i]
CacheKeysSync(c1, i, lp, pw, ccSync) ==
    IF ccSync = DecryptFailure THEN [cc |-> BadPassword, cache |-> c1, idx |-> i]
    ELSE IF ccSync # Ok THEN [cc |-> ccSync, cache |-> c1, idx |-> i]
    ELSE CacheKeysStore(c1, i,
            CacheKeysPassword(
               [c1[i] EXCEPT !.szRepoAcctKey = DecryptPlain(LoginESyncKey(lp))],
               lp, pw))

\* Lines 1530-1533: the login package of Account_<accountNum> is read.
CacheKeysLogin(c1, i, lp, pw, loginFail) ==
    IF lp = NULL \/ loginFail THEN [cc |-> FileError, cache |-> c1, idx |-> i]
    ELSE CacheKeysSync(c1, i, lp, pw, DecryptCC(LoginESyncKey(lp), c1[i].L4))

CacheKeysLoaded(ld, d, pw, loginFail) ==
    IF ld.cc # Ok THEN ld
    ELSE CacheKeysLogin(ld.cache, ld.idx,
            IF ld.cache[ld.idx].accountNum \in Slots
            THEN d[ld.cache[ld.idx].accountNum].login ELSE NULL,
            pw, loginFail)

\* ABC_LoginCacheKeys(szUserName, szPassword): cc, the cache afterwards and
\* the index of the user's entry (0 on the errors that leave none).  rdFail:
\* a package file cannot be read (the care package of a new entry, the login
\* package of a cached one).
LoginCacheKeys(c, d, u, pw, rdFail) ==
    CacheKeysLoaded(CacheKeysLoad(c, d, u, rdFail), d, pw,
                    rdFail /\ LoginKeyFromCacheByName(c, u) # 0)

\* ------------------------------------------------------------- login server
\* The account the server holds under one L1.
NoAcct == [exists |-> FALSE, LP1 |-> NULL, LRA1 |-> NULL, care |-> NULL,
           login |-> NULL, syncKey |-> NULL, active |-> FALSE]

L1Of(u) == Scrypt(u, SNRPForServer)
L1s == {L1Of(u) : u \in Users}

\* Server-side authentication of a request carrying LP1 or, when LP1 is NULL,
\* LRA1.
SrvAuth(acct, LP1, LRA1) ==
    IF LP1 # NULL THEN acct.LP1 = LP1
    ELSE LRA1 # NULL /\ acct.LRA1 = LRA1

\* POST /account/create
ServerCreateCC(s, L1) == IF s[L1].exists THEN AccountAlreadyExists ELSE Ok
ServerCreate(s, L1, LP1, care, login, syncKey) ==
    IF ServerCreateCC(s, L1) # Ok THEN s
    ELSE [s EXCEPT ![L1] = [exists |-> TRUE, LP1 |-> LP1, LRA1 |-> NULL,
                            care |-> care, login |-> login,
                            syncKey |-> syncKey, active |-> FALSE]]

\* POST /account/activate
ServerActivateCC(s, L1, LP1) ==
    IF ~s[L1].exists THEN AccountDoesNotExist
    ELSE IF ~SrvAuth(s[L1], LP1, NULL) THEN BadPassword ELSE Ok
ServerActivate(s, L1, LP1) ==
    IF ServerActivateCC(s, L1, LP1) # Ok THEN s
    ELSE [s EXCEPT ![L1].active = TRUE]

\* GET /account/carepackage/get
ServerGetCarePackageCC(s, L1) == IF s[L1].exists THEN Ok ELSE AccountDoesNotExist

\* POST /account/loginpackage/get
ServerGetLoginPackageCC(s, L1, LP1, LRA1) ==
    IF ~s[L1].exists THEN AccountDoesNotExist
    ELSE IF ~SrvAuth(s[L1], LP1, LRA1) THEN BadPassword ELSE Ok

\* POST /account/recovery/set
ServerSetRecoveryCC(s, L1, LP1) ==
    IF ~s[L1].exists THEN AccountDoesNotExist
    ELSE IF ~SrvAuth(s[L1], LP1, NULL) THEN BadPassword ELSE Ok
ServerSetRecovery(s, L1, LP1, LRA1, care, login) ==
    IF ServerSetRecoveryCC(s, L1, LP1) # Ok THEN s
    ELSE [s EXCEPT ![L1].LRA1 = LRA1, ![L1].care = care, ![L1].login = login]

\* POST /account/password/update
ServerChangePasswordCC(s, L1, oldLP1, LRA1) ==
    IF ~s[L1].exists THEN AccountDoesNotExist
    ELSE IF ~SrvAuth(s[L1], oldLP1, LRA1) THEN BadPassword ELSE Ok
ServerChangePassword(s, L1, oldLP1, LRA1, newLP1, login) ==
    IF ServerChangePasswordCC(s, L1, oldLP1, LRA1) # Ok THEN s
    ELSE [s EXCEPT ![L1].LP1 = newLP1, ![L1].login = login]

\* ----------------------------------------------------------- login package
\* ABC_LoginUpdateLoginPackageJSONString with LP2 encrypted into EMK in the
\* place of MK.
UpdateLoginPackageWrapsLP2(k, d, MK, repoKey, LP2, LRA3, iv) ==
    LET old   == IF k.accountNum \in Slots THEN d[k.accountNum].login ELSE NULL
        emk   == IF MK # NULL THEN Encrypt(k.LP2, k.LP2, iv)
                 ELSE LoginEMK(old)
        esync == Encrypt(repoKey, k.L4, iv)
        both  == LP2 # NULL /\ LRA3 # NULL
        elp2  == IF both THEN Encrypt(LP2, LRA3, iv)
                 ELSE IF old = NULL THEN NULL ELSE LoginELP2(old)
        elra3 == IF both THEN Encrypt(LRA3, LP2, iv)
                 ELSE IF old = NULL THEN NULL ELSE LoginELRA3(old)
    IN  LoginPackage(emk, esync, elp2, elra3)

\* ABC_LoginUpdateLoginPackageJSONString(pKeys, MK, szRepoAcctKey, LP2, LRA3):
\* starts from the envelopes of the LoginPackage.json of pKeys->accountNum when
\* that file exists, replaces EMK when MK is given, always re-encrypts the
\* sync key under L4, and replaces ELP2 and ELRA3 when both LP2 and LRA3 are
\* given.
UpdateLoginPackageCC(k, d, MK, repoKey) ==
    LET old == IF k.accountNum \in Slots THEN d[k.accountNum].login ELSE NULL
    IN  IF repoKey = NULL THEN NULLPtr
        ELSE IF MK # NULL /\ k.LP2 = NULL THEN NULLPtr
        ELSE IF k.L4 = NULL THEN NULLPtr
        ELSE IF MK = NULL /\ old = NULL THEN NULLPtr
        ELSE Ok
UpdateLoginPackage(k, d, MK, repoKey, LP2, LRA3, iv) ==
    LET old   == IF k.accountNum \in Slots THEN d[k.accountNum].login ELSE NULL
        emk   == IF MK # NULL THEN Encrypt(MK, k.LP2, iv)
                 ELSE LoginEMK(old)
        esync == Encrypt(repoKey, k.L4, iv)
        both  == LP2 # NULL /\ LRA3 # NULL
        elp2  == IF both THEN Encrypt(LP2, LRA3, iv)
                 ELSE IF old = NULL THEN NULL ELSE LoginELP2(old)
        elra3 == IF both THEN Encrypt(LRA3, LP2, iv)
                 ELSE IF old = NULL THEN NULL ELSE LoginELRA3(old)
    IN  LoginPackage(emk, esync, elp2, elra3)

\* ------------------------------------------------------ operation plumbing
\* What a call remembers of the call that returned before it, when that call
\* set credentials (create, changePassword, setRecovery) and returned Ok.
NoSummary == [op |-> "none", u |-> NoStr, p |-> NoStr, a |-> NoStr,
              np |-> NoStr, cleared |-> FALSE]
SetsCredentials == {"create", "changePassword", "setRecovery"}
Summary(r) ==
    IF r.cc = Ok /\ r.op \in SetsCredentials
    THEN [op |-> r.op, u |-> r.u, p |-> r.p, a |-> r.a, np |-> r.np,
          cleared |-> r.cleared]
    ELSE NoSummary

IdleCtx == [op |-> "none", u |-> NoStr, p |-> NoStr, a |-> NoStr, q |-> NoStr,
            np |-> NoStr, dir |-> NoDir, keys |-> NoKeys, idx |-> 0,
            care |-> NULL, login |-> NULL, nonce |-> 0, hadSlot |-> FALSE,
            oldLP1 |-> NULL, LRA1 |-> NULL, LRA3 |-> NULL, faulted |-> FALSE,
            offline |-> FALSE, remote |-> FALSE, hadLRA |-> FALSE,
            refused |-> FALSE, locked |-> FALSE, prev |-> NoSummary]

\* The last call that returned: its arguments, its return code, the values it
\* handed back (valid, questions), and how it ran (hadSlot: the user had a
\* directory when it started; faulted: a failure was injected into it;
\* offline: the server could not be reached for the refresh; remote: the
\* answers were checked by the server; hadLRA: the cache entry held LRA;
\* refused: the server answered the refresh with BadPassword; cleared:
\* ABC_LoginClearKeyCache was called since, and held: the secret fields of the
\* records it released that are still allocated; sent: the LP1 that
\* ABC_LoginUpdateLoginPackageFromServer passed to the server; keyType and
\* key: the key ABC_LoginGetKey was asked for and the one it handed back;
\* prev: the call before).
NoRet == [op |-> "none", u |-> NoStr, p |-> NoStr, a |-> NoStr, np |-> NoStr,
          cc |-> Ok, valid |-> FALSE, q |-> NULL, hadSlot |-> FALSE,
          faulted |-> FALSE, offline |-> FALSE, remote |-> FALSE,
          hadLRA |-> FALSE, refused |-> FALSE, cleared |-> FALSE, held |-> {},
          sent |-> NULL, keyType |-> NoStr, key |-> NULL, prev |-> NoSummary]

\* What a call that ran in context c returns.
RetOf(c, cc, valid, faulted) ==
    [op |-> c.op, u |-> c.u, p |-> c.p, a |-> c.a, np |-> c.np, cc |-> cc,
     valid |-> valid, q |-> NULL, hadSlot |-> c.hadSlot,
     faulted |-> c.faulted \/ faulted, offline |-> c.offline,
     remote |-> c.remote, hadLRA |-> c.hadLRA, refused |-> c.refused,
     cleared |-> FALSE, held |-> {}, sent |-> NULL, keyType |-> NoStr,
     key |-> NULL, prev |-> c.prev]

\* A failure may be injected while the budget lasts.
FaultSet == IF nfaults < MaxFaults THEN {FALSE, TRUE} ELSE {FALSE}
Charge(fail) == nfaults' = nfaults + (IF fail THEN 1 ELSE 0)

Idle == pc = "idle"
MayStart == Idle /\ budget > 0

\* The public functions that call ABC_LoginMutexLock on entry and
\* ABC_LoginMutexUnlock in their exit block: ABC_LoginCreate (lines 232, 380),
\* ABC_LoginSetRecovery (586, 717), ABC_LoginChangePassword (752, 871).
\* ABC_LoginSignIn, ABC_LoginCheckRecoveryAnswers and
\* ABC_LoginGetRecoveryQuestions never call it themselves; the helpers they
\* call (ABC_LoginCacheKeys, ABC_LoginGetKey, ABC_LoginClearKeyCache) take and
\* release it within one step.
HoldsLock(op) == op \in {"create", "setRecovery", "changePassword"}

StartCtx(op, u, p, a, q, np) ==
    [IdleCtx EXCEPT !.op = op, !.u = u, !.p = p, !.a = a, !.q = q, !.np = np,
                    !.hadSlot = LoginDirExists(disk, u),
                    !.locked = HoldsLock(op),
                    !.prev = Summary(ret)]

\* ABC_LoginMutexLock and ABC_LoginMutexUnlock (lines 2127-2141) on the
\* recursive mutex they share with ABC_Wallet, as the depth to which the
\* calling thread holds it.  Unlocking a mutex the thread does not hold
\* fails and changes nothing.
LoginMutexLock(depth) == depth + 1
LoginMutexUnlockKeepsLock(depth) == depth
LoginMutexUnlock(depth) == IF depth > 0 THEN depth - 1 ELSE depth

\* The first statement of ABC_LoginCreate, ABC_LoginSetRecovery and
\* ABC_LoginChangePassword takes the lock (lines 232, 586, 752); the exit
\* block, through which every return passes, releases it (380, 717, 871).
LockedOperationStarts ==
    lockDepth' = IF pc' = "idle"
                 THEN LoginMutexUnlock(LoginMutexLock(lockDepth))
                 ELSE LoginMutexLock(lockDepth)
LockedOperationSteps ==
    lockDepth' = IF pc' = "idle" THEN LoginMutexUnlock(lockDepth)
                 ELSE lockDepth

\* A step that only calls ABC_LoginClearKeyCache (1316, 1332),
\* ABC_LoginCacheKeys (1476, 1648), ABC_LoginGetKey (1664, 1757) or
\* ABC_LoginGetSyncKeys (2037, 2056): each locks first and unlocks in its
\* exit block.
LockedHelpersRun == lockDepth' = LoginMutexUnlock(LoginMutexLock(lockDepth))

\* ------------------------------------------------------------------ create
\* Lines 241-281 with LP2 derived from the password alone.
CreateKeysLP2FromP(u, p, n) ==
    [NoKeys EXCEPT
       !.szUserName = u,
       !.szPassword = p,
       !.pSNRP1 = SNRPForServer,
       !.pSNRP2 = SNRPForClient(2, n),
       !.pSNRP3 = SNRPForClient(3, n),
       !.pSNRP4 = SNRPForClient(4, n),
       !.L = u,
       !.L1 = Scrypt(u, SNRPForServer),
       !.P = p,
       !.LP = BufAppend(u, p),
       !.LP1 = Scrypt(BufAppend(u, p), SNRPForServer),
       !.L4 = Scrypt(u, SNRPForClient(4, n)),
       !.LP2 = Scrypt(p, SNRPForClient(2, n))]

\* The keys ABC_LoginCreate derives before it touches the store (lines
\* 241-281): SNRP1 fixed, SNRP2/3/4 fresh, L, L1, P, LP, LP1, L4, LP2.
CreateKeys(u, p, n) ==
    [NoKeys EXCEPT
       !.szUserName = u,
       !.szPassword = p,
       !.pSNRP1 = SNRPForServer,
       !.pSNRP2 = SNRPForClient(2, n),
       !.pSNRP3 = SNRPForClient(3, n),
       !.pSNRP4 = SNRPForClient(4, n),
       !.L = u,
       !.L1 = Scrypt(u, SNRPForServer),
       !.P = p,
       !.LP = BufAppend(u, p),
       !.LP1 = Scrypt(BufAppend(u, p), SNRPForServer),
       !.L4 = Scrypt(u, SNRPForClient(4, n)),
       !.LP2 = Scrypt(BufAppend(u, p), SNRPForClient(2, n))]

\* The exit block of ABC_LoginCreate on an error (lines 356-365): the account
\* directory is deleted and pKeys is freed, also when the cache array already
\* points at it.
CreateCleanupKeepsDir(d, dir) == d
CreateCleanupDisk(d, dir) == DeleteRecursive(d, dir)
CreateCleanupCache(c, idx) == IF idx = 0 THEN c ELSE [c EXCEPT ![idx] = FreedKeys]

CreateFail(cc, fail) ==
    /\ disk' = CreateCleanupDisk(disk, ctx.dir)
    /\ cache' = CreateCleanupCache(cache, ctx.idx)
    /\ pc' = "idle"
    /\ ret' = RetOf(ctx, cc, FALSE, fail)
    /\ ctx' = IdleCtx

\* Lines 234-239 with the account number 0 taken for "no account".
CreateNameTakenAboveZero(d, u) == LoginDirGetNumber(d, u) > 0

\* Lines 234-239: the user name is taken when a directory names it.
CreateNameTaken(d, u) == LoginDirGetNumber(d, u) >= 0

\* Lines 232-281: the local availability check (its error leaves through the
\* exit block with szAccountDir and pKeys still NULL), then the key
\* derivation.
CreateCall(u, p) ==
    /\ MayStart
    /\ budget' = budget - 1
    /\ LET c0 == StartCtx("create", u, p, NoStr, NoStr, NoStr)
       IN  IF CreateNameTaken(disk, u)
           THEN /\ disk' = CreateCleanupDisk(disk, c0.dir)
                /\ cache' = CreateCleanupCache(cache, c0.idx)
                /\ ret' = RetOf(c0, AccountAlreadyExists, FALSE, FALSE)
                /\ UNCHANGED <<pc, ctx, rnd, nfaults>>
           ELSE \E fail \in FaultSet :
                /\ Charge(fail)
                /\ IF fail
                   THEN /\ ret' = RetOf(c0, Error, FALSE, TRUE)
                        /\ UNCHANGED <<pc, ctx, rnd>>
                   ELSE /\ rnd' = rnd + 1
                        /\ pc' = "create_dir"
                        /\ ctx' = [c0 EXCEPT
                                     !.nonce = rnd + 1,
                                     !.keys = CreateKeys(u, p, rnd + 1),
                                     !.care = CarePackage(NULL,
                                                SNRPForClient(2, rnd + 1),
                                                SNRPForClient(3, rnd + 1),
                                                SNRPForClient(4, rnd + 1))]
                        /\ UNCHANGED ret
                /\ UNCHANGED <<disk, cache>>
    /\ UNCHANGED <<otherModules, server, gCarePackageCache, created, nwipes>>
    /\ LockedOperationStarts

\* Lines 283-289: ABC_LoginDirNewNumber, ABC_FileIOCreateDir.
CreateDir ==
    /\ pc = "create_dir"
    /\ \E fail \in FaultSet :
       /\ Charge(fail)
       /\ IF fail
          THEN CreateFail(FileError, TRUE)
          ELSE LET n == LoginDirNewNumber(disk)
               IN  /\ disk' = [disk EXCEPT ![n] = EmptySlot]
                   /\ ctx' = [ctx EXCEPT !.dir = n, !.keys.accountNum = n]
                   /\ pc' = "create_name"
                   /\ UNCHANGED <<cache, ret>>
    /\ UNCHANGED <<otherModules, server, gCarePackageCache, rnd, budget,
                   created, nwipes>>
    /\ LockedOperationSteps

\* Lines 293-298: UserName.json.
CreateName ==
    /\ pc = "create_name"
    /\ \E fail \in FaultSet :
       /\ Charge(fail)
       /\ IF fail
          THEN CreateFail(FileError, TRUE)
          ELSE /\ disk' = [disk EXCEPT ![ctx.dir].name = ctx.u]
               /\ pc' = "create_server"
               /\ UNCHANGED <<cache, ctx, ret>>
    /\ UNCHANGED <<otherModules, server, gCarePackageCache, rnd, budget,
                   created, nwipes>>
    /\ LockedOperationSteps

\* Lines 300-317: MK, the sync key, the login package, then
\* ABC_LoginServerCreate.
CreateServer ==
    /\ pc = "create_server"
    /\ LET MK   == RandomMK(ctx.nonce)
           repo == HexEncode(RandomSyncKey(ctx.nonce))
           k    == [ctx.keys EXCEPT !.MK = MK, !.szRepoAcctKey = repo]
           lp   == UpdateLoginPackage(k, disk, MK, repo, NULL, NULL, ctx.nonce)
           cc   == ServerCreateCC(server, k.L1)
       IN  \E fail \in FaultSet :
           /\ Charge(fail)
           /\ IF fail
              THEN /\ CreateFail(ServerError, TRUE)
                   /\ UNCHANGED <<server, created>>
              ELSE IF cc # Ok
              THEN /\ CreateFail(cc, FALSE)
                   /\ UNCHANGED <<server, created>>
              ELSE /\ server' = ServerCreate(server, k.L1, k.LP1, ctx.care, lp, repo)
                   /\ created' = [created EXCEPT ![ctx.u] =
                                    [MK |-> MK, syncKey |-> repo]]
                   /\ ctx' = [ctx EXCEPT !.keys = k, !.login = lp]
                   /\ pc' = "create_care"
                   /\ UNCHANGED <<disk, cache, ret>>
    /\ UNCHANGED <<otherModules, gCarePackageCache, rnd, budget, nwipes>>
    /\ LockedOperationSteps

\* Lines 319-321: CarePackage.json.
CreateCare ==
    /\ pc = "create_care"
    /\ \E fail \in FaultSet :
       /\ Charge(fail)
       /\ IF fail
          THEN CreateFail(FileError, TRUE)
          ELSE /\ disk' = [disk EXCEPT ![ctx.dir].care = ctx.care]
               /\ pc' = "create_login"
               /\ UNCHANGED <<cache, ctx, ret>>
    /\ UNCHANGED <<otherModules, server, gCarePackageCache, rnd, budget,
                   created, nwipes>>
    /\ LockedOperationSteps

\* Lines 323-325: LoginPackage.json.
CreateLogin ==
    /\ pc = "create_login"
    /\ \E fail \in FaultSet :
       /\ Charge(fail)
       /\ IF fail
          THEN CreateFail(FileError, TRUE)
          ELSE /\ disk' = [disk EXCEPT ![ctx.dir].login = ctx.login]
               /\ pc' = "create_syncdir"
               /\ UNCHANGED <<cache, ctx, ret>>
    /\ UNCHANGED <<otherModules, server, gCarePackageCache, rnd, budget,
                   created, nwipes>>
    /\ LockedOperationSteps

\* Line 327: ABC_LoginCreateSync.
CreateSyncDir ==
    /\ pc = "create_syncdir"
    /\ \E fail \in FaultSet :
       /\ Charge(fail)
       /\ IF fail
          THEN CreateFail(FileError, TRUE)
          ELSE /\ disk' = [disk EXCEPT ![ctx.dir].sync = "dir"]
               /\ pc' = "create_cache"
               /\ UNCHANGED <<cache, ctx, ret>>
    /\ UNCHANGED <<otherModules, server, gCarePackageCache, rnd, budget,
                   created, nwipes>>
    /\ LockedOperationSteps

\* Line 330: ABC_LoginAddToKeyCache(pKeys).
CreateCache ==
    /\ pc = "create_cache"
    /\ LET cc == AddToKeyCacheCC(cache, ctx.keys)
       IN  IF cc # Ok
           THEN CreateFail(cc, FALSE)
           ELSE /\ cache' = AddToKeyCache(cache, ctx.keys)
                /\ ctx' = [ctx EXCEPT !.idx = Len(cache) + 1, !.keys = NoKeys]
                /\ pc' = "create_account"
                /\ UNCHANGED <<disk, ret>>
    /\ UNCHANGED <<otherModules, server, gCarePackageCache, rnd, budget,
                   nfaults, created, nwipes>>
    /\ LockedOperationSteps

\* ----------------------------------------------------------------- get key
\* ABC_LoginGetKey(szUserName, szPassword, keyType): cc, the cache afterwards
\* and the key.  Every key type first runs ABC_LoginCacheKeys.
GetKeyL1(k) == [cc |-> Ok, k |-> [k EXCEPT !.L1 = Scrypt(k.L, k.pSNRP1)], key |-> Scrypt(k.L, k.pSNRP1)]
GetKeyL4(k) == [cc |-> Ok, k |-> [k EXCEPT !.L4 = Scrypt(k.L, k.pSNRP4)], key |-> Scrypt(k.L, k.pSNRP4)]

\* case ABC_LoginKey_LP1 (lines 1696-1705): when LP1 is not cached it is
\* computed from L and whatever P holds.
GetKeyLP1(k) ==
    IF k.LP1 # NULL THEN [cc |-> Ok, k |-> k, key |-> k.LP1]
    ELSE LET LP == BufAppend(k.L, k.P)
         IN  [cc |-> Ok,
              k |-> [k EXCEPT !.LP = LP, !.LP1 = Scrypt(LP, k.pSNRP1)],
              key |-> Scrypt(LP, k.pSNRP1)]

\* case ABC_LoginKey_MK / ABC_LoginKey_LP2 (lines 1707-1712).
GetKeyMK(k) ==
    IF k.MK = NULL THEN [cc |-> Error, k |-> k, key |-> NULL]
    ELSE [cc |-> Ok, k |-> k, key |-> k.MK]

\* case ABC_LoginKey_RepoAccountKey (lines 1714-1720).
GetKeyRepo(k) == [cc |-> Ok, k |-> k, key |-> k.szRepoAcctKey]

\* case ABC_LoginKey_RQ (lines 1722-1746).
GetKeyRQ(k, d, u) ==
    IF k.RQ # NULL THEN [cc |-> Ok, k |-> k, key |-> k.RQ]
    ELSE LET n   == LoginDirGetNumber(d, u)
             L4  == Scrypt(k.L, k.pSNRP4)
             erq == IF n >= 0 /\ d[n].care # NULL THEN CareERQ(d[n].care) ELSE NULL
         IN  IF n < 0 THEN [cc |-> AccountDoesNotExist, k |-> k, key |-> NULL]
             ELSE IF d[n].care = NULL THEN [cc |-> FileError, k |-> k, key |-> NULL]
             ELSE IF erq = NULL THEN [cc |-> NoRecoveryQuestions, k |-> k, key |-> NULL]
             ELSE IF DecryptCC(erq, L4) # Ok
                  THEN [cc |-> DecryptCC(erq, L4), k |-> k, key |-> NULL]
             ELSE [cc |-> Ok, k |-> [k EXCEPT !.RQ = DecryptPlain(erq)],
                   key |-> DecryptPlain(erq)]

KeyCaseLP2FromItsField(k, d, u, keyType) ==
    CASE keyType = "L1" -> GetKeyL1(k)
      [] keyType = "L4" -> GetKeyL4(k)
      [] keyType = "LP1" -> GetKeyLP1(k)
      [] keyType = "MK" -> GetKeyMK(k)
      [] keyType = "LP2" -> [cc |-> Ok, k |-> k, key |-> k.LP2]
      [] keyType = "RepoAccountKey" -> GetKeyRepo(k)
      [] keyType = "RQ" -> GetKeyRQ(k, d, u)
KeyCase(k, d, u, keyType) ==
    CASE keyType = "L1" -> GetKeyL1(k)
      [] keyType = "L4" -> GetKeyL4(k)
      [] keyType = "LP1" -> GetKeyLP1(k)
      [] keyType = "MK" -> GetKeyMK(k)
      [] keyType = "LP2" -> GetKeyMK(k)
      [] keyType = "RepoAccountKey" -> GetKeyRepo(k)
      [] keyType = "RQ" -> GetKeyRQ(k, d, u)

GetKeyStore(ck, r) ==
    [cc |-> r.cc, cache |-> [ck.cache EXCEPT ![ck.idx] = r.k], key |-> r.key]
GetKeyCached(ck, d, u, keyType) ==
    IF ck.cc # Ok THEN [cc |-> ck.cc, cache |-> ck.cache, key |-> NULL]
    ELSE GetKeyStore(ck, KeyCase(ck.cache[ck.idx], d, u, keyType))
LoginGetKey(c, d, u, pw, keyType, rdFail) ==
    GetKeyCached(LoginCacheKeys(c, d, u, pw, rdFail), d, u, keyType)

\* ABC_LoginGetSyncKeys(szUserName, szPassword): the sync directory name, the
\* repo key and MK.
SyncKeysBoth(r1, r2) ==
    [cc |-> r2.cc, cache |-> r2.cache, syncKey |-> r1.key, MK |-> r2.key]
SyncKeysRepo(r1, d, u, pw) ==
    IF r1.cc # Ok
    THEN [cc |-> r1.cc, cache |-> r1.cache, syncKey |-> NULL, MK |-> NULL]
    ELSE SyncKeysBoth(r1, LoginGetKey(r1.cache, d, u, pw, "MK", FALSE))
LoginGetSyncKeys(c, d, u, pw, rdFail) ==
    IF ~LoginDirExists(d, u)
    THEN [cc |-> AccountDoesNotExist, cache |-> c, syncKey |-> NULL, MK |-> NULL]
    ELSE SyncKeysRepo(LoginGetKey(c, d, u, pw, "RepoAccountKey", rdFail),
                      d, u, pw)

\* Lines 332-334: ABC_LoginGetSyncKeys, then ABC_AccountCreate fills the sync
\* directory.
CreateAccount ==
    /\ pc = "create_account"
    /\ \E fail \in FaultSet :
       /\ Charge(fail)
       /\ \E r \in {LoginGetSyncKeys(cache, disk, ctx.u, ctx.p, FALSE)} :
              IF fail THEN CreateFail(FileError, TRUE)
              ELSE IF r.cc # Ok
              THEN /\ disk' = CreateCleanupDisk(disk, ctx.dir)
                   /\ cache' = CreateCleanupCache(r.cache, ctx.idx)
                   /\ pc' = "idle"
                   /\ ret' = RetOf(ctx, r.cc, FALSE, FALSE)
                   /\ ctx' = IdleCtx
              ELSE /\ cache' = r.cache
                   /\ pc' = "create_info"
                   /\ UNCHANGED <<disk, ctx, ret>>
    /\ UNCHANGED <<otherModules, server, gCarePackageCache, rnd, budget,
                   created, nwipes>>
    /\ LockedOperationSteps

\* Lines 336-343: ABC_GeneralUpdateQuestionChoices, ABC_GeneralUpdateInfo,
\* ABC_GeneralGetInfo, each under ABC_CHECK_RET.
CreateInfo ==
    /\ pc = "create_info"
    /\ \E fail \in FaultSet :
       /\ Charge(fail)
       /\ IF fail
          THEN CreateFail(ServerError, TRUE)
          ELSE /\ pc' = "create_repo"
               /\ UNCHANGED <<disk, cache, ctx, ret>>
    /\ UNCHANGED <<otherModules, server, gCarePackageCache, rnd, budget,
                   created, nwipes>>
    /\ LockedOperationSteps

\* Line 351: ABC_SyncMakeRepo.
CreateRepo ==
    /\ pc = "create_repo"
    /\ \E fail \in FaultSet :
       /\ Charge(fail)
       /\ IF fail
          THEN CreateFail(SysError, TRUE)
          ELSE /\ disk' = [disk EXCEPT ![ctx.dir].sync = "repo"]
               /\ pc' = "create_syncrepo"
               /\ UNCHANGED <<cache, ctx, ret>>
    /\ UNCHANGED <<otherModules, server, gCarePackageCache, rnd, budget,
                   created, nwipes>>
    /\ LockedOperationSteps

\* Line 352: ABC_SyncRepo.
CreateSyncRepo ==
    /\ pc = "create_syncrepo"
    /\ \E fail \in FaultSet :
       /\ Charge(fail)
       /\ IF fail
          THEN CreateFail(SysError, TRUE)
          ELSE /\ disk' = SyncRepo(disk, ctx.dir)
               /\ pc' = "create_activate"
               /\ UNCHANGED <<cache, ctx, ret>>
    /\ UNCHANGED <<otherModules, server, gCarePackageCache, rnd, budget,
                   created, nwipes>>
    /\ LockedOperationSteps

\* Lines 354-355: ABC_LoginServerActivate, then the keys stay in the cache.
CreateActivate ==
    /\ pc = "create_activate"
    /\ LET k  == cache[ctx.idx]
           cc == ServerActivateCC(server, k.L1, k.LP1)
       IN  \E fail \in FaultSet :
           /\ Charge(fail)
           /\ IF fail
              THEN /\ CreateFail(ServerError, TRUE)
                   /\ UNCHANGED server
              ELSE IF cc # Ok
              THEN /\ CreateFail(cc, FALSE)
                   /\ UNCHANGED server
              ELSE /\ server' = ServerActivate(server, k.L1, k.LP1)
                   /\ pc' = "idle"
                   /\ ret' = RetOf(ctx, Ok, FALSE, FALSE)
                   /\ ctx' = IdleCtx
                   /\ UNCHANGED <<disk, cache>>
    /\ UNCHANGED <<otherModules, gCarePackageCache, rnd, budget, created,
                   nwipes>>
    /\ LockedOperationSteps

\* ----------------------------------------------------------- init packages
\* ABC_LoginInitPackages: a new account directory with UserName.json,
\* CarePackage.json and LoginPackage.json.  failAt = 0: all four steps succeed;
\* failAt = 1..4: the directory creation, the name file, the care package or
\* the login package write fails and the function returns there.  *szAccountDir
\* is set once ABC_LoginDirNewNumber has succeeded.
InitSteps == 0 .. 4
InitPackagesDisk(d, u, care, login, failAt) ==
    LET n  == LoginDirNewNumber(d)
        d1 == [d EXCEPT ![n] = EmptySlot]
        d2 == [d1 EXCEPT ![n].name = u]
        d3 == [d2 EXCEPT ![n].care = care]
        d4 == [d3 EXCEPT ![n].login = login]
    IN  CASE failAt = 1 -> d
          [] failAt = 2 -> d1
          [] failAt = 3 -> d2
          [] failAt = 4 -> d3
          [] OTHER -> d4
InitPackagesCC(failAt) == IF failAt = 0 THEN Ok ELSE FileError
InitFaultSet == IF nfaults < MaxFaults THEN InitSteps ELSE {0}

\* ----------------------------------------------------------------- sign in
\* ABC_LoginClearKeyCache: every entry is released and the array dropped.
\* ABC_LoginClearKeyCache returning with the array as it was.
LoginClearKeyCacheKeepsEntries(c) == c

LoginClearKeyCache(c) == <<>>

\* The exit block of ABC_LoginSignIn (lines 193-199).
SignInReturn(cc, fail, c) ==
    /\ cache' = IF cc # Ok THEN LoginClearKeyCache(c) ELSE c
    /\ pc' = "idle"
    /\ ret' = RetOf(ctx, cc, FALSE, fail)
    /\ ctx' = IdleCtx

\* The exit block of ABC_LoginFetch on an error (lines 442-446), followed by
\* that of ABC_LoginSignIn.
FetchFail(cc, fail, d) ==
    /\ disk' = DeleteRecursive(d, ctx.dir)
    /\ SignInReturn(cc, fail, LoginClearKeyCache(cache))

\* Lines 147-175: the cache is cleared; without a local directory the account
\* is fetched from the server, with one the keys are cached by name and P, LP
\* and LP1 are filled in for the refresh.
SignInCall(u, p) ==
    /\ MayStart
    /\ budget' = budget - 1
    /\ LET c0 == StartCtx("signIn", u, p, NoStr, NoStr, NoStr)
           c1 == LoginClearKeyCache(cache)
       IN  IF ~LoginDirExists(disk, u)
           THEN /\ cache' = c1
                /\ pc' = "fetch_care"
                /\ ctx' = c0
                /\ UNCHANGED <<ret, nfaults>>
           ELSE \E rdFail \in FaultSet :
                /\ Charge(rdFail)
                /\ \E ck \in {LoginCacheKeys(c1, disk, u, NoStr, rdFail)} :
                       IF ck.cc # Ok
                       THEN /\ cache' = LoginClearKeyCache(ck.cache)
                            /\ ret' = RetOf(c0, ck.cc, FALSE, rdFail)
                            /\ UNCHANGED <<pc, ctx>>
                       ELSE LET k  == ck.cache[ck.idx]
                                LP == BufAppend(k.L, p)
                            IN  /\ cache' = [ck.cache EXCEPT ![ck.idx] =
                                               [k EXCEPT !.P = p, !.LP = LP,
                                                  !.LP1 = Scrypt(LP, k.pSNRP1)]]
                                /\ pc' = "signin_refresh"
                                /\ ctx' = [c0 EXCEPT !.idx = ck.idx]
                                /\ UNCHANGED ret
    /\ UNCHANGED <<otherModules, disk, server, gCarePackageCache, rnd,
                   created, nwipes>>
    /\ LockedHelpersRun

\* Lines 408-418 of ABC_LoginFetch: L1, LP1, then ABC_LoginServerGetCarePackage.
FetchCare ==
    /\ pc = "fetch_care"
    /\ LET L1 == Scrypt(ctx.u, SNRPForServer)
           cc == ServerGetCarePackageCC(server, L1)
       IN  \E fail \in FaultSet :
           /\ Charge(fail)
           /\ IF fail THEN FetchFail(ServerError, TRUE, disk)
              ELSE IF cc # Ok THEN FetchFail(cc, FALSE, disk)
              ELSE /\ ctx' = [ctx EXCEPT !.care = server[L1].care]
                   /\ pc' = "fetch_login"
                   /\ UNCHANGED <<disk, cache, ret>>
    /\ UNCHANGED <<otherModules, server, gCarePackageCache, rnd, budget,
                   created, nwipes>>
    /\ UNCHANGED lockDepth

\* Line 421: ABC_LoginServerGetLoginPackage(L1, LP1, NULL).
FetchLogin ==
    /\ pc = "fetch_login"
    /\ LET L1  == Scrypt(ctx.u, SNRPForServer)
           LP1 == Scrypt(BufAppend(ctx.u, ctx.p), SNRPForServer)
           cc  == ServerGetLoginPackageCC(server, L1, LP1, NULL)
       IN  \E fail \in FaultSet :
           /\ Charge(fail)
           /\ IF fail THEN FetchFail(ServerError, TRUE, disk)
              ELSE IF cc # Ok THEN FetchFail(cc, FALSE, disk)
              ELSE /\ ctx' = [ctx EXCEPT !.login = server[L1].login]
                   /\ pc' = "fetch_init"
                   /\ UNCHANGED <<disk, cache, ret>>
    /\ UNCHANGED <<otherModules, server, gCarePackageCache, rnd, budget,
                   created, nwipes>>
    /\ UNCHANGED lockDepth

\* Lines 423-427: ABC_LoginInitPackages.
FetchInit ==
    /\ pc = "fetch_init"
    /\ \E failAt \in InitFaultSet :
       /\ Charge(failAt # 0)
       /\ LET d1 == InitPackagesDisk(disk, ctx.u, ctx.care, ctx.login, failAt)
              n  == LoginDirNewNumber(disk)
          IN  IF failAt # 0
              THEN /\ disk' = DeleteRecursive(d1, n)
                   /\ SignInReturn(InitPackagesCC(failAt), TRUE,
                                   LoginClearKeyCache(cache))
              ELSE /\ disk' = d1
                   /\ ctx' = [ctx EXCEPT !.dir = n]
                   /\ pc' = "fetch_keys"
                   /\ UNCHANGED <<cache, ret>>
    /\ UNCHANGED <<otherModules, server, gCarePackageCache, rnd, budget,
                   created, nwipes>>
    /\ UNCHANGED lockDepth

\* Line 430: ABC_LoginCacheKeys(szUserName, szPassword).
FetchKeys ==
    /\ pc = "fetch_keys"
    /\ \E rdFail \in FaultSet :
       /\ Charge(rdFail)
       /\ \E ck \in {LoginCacheKeys(cache, disk, ctx.u, ctx.p, rdFail)} :
              IF ck.cc # Ok THEN FetchFail(ck.cc, rdFail, disk)
              ELSE /\ cache' = ck.cache
                   /\ ctx' = [ctx EXCEPT !.idx = ck.idx]
                   /\ pc' = "fetch_sync"
                   /\ UNCHANGED <<disk, ret>>
    /\ UNCHANGED <<otherModules, server, gCarePackageCache, rnd, budget,
                   created, nwipes>>
    /\ LockedHelpersRun

\* Lines 432-440: ABC_LoginCreateSync, ABC_SyncMakeRepo, ABC_SyncRepo.
FetchSync ==
    /\ pc = "fetch_sync"
    /\ \E fail \in FaultSet :
       /\ Charge(fail)
       /\ IF fail THEN FetchFail(SysError, TRUE, disk)
          ELSE /\ disk' = SyncRepo(disk, ctx.dir)
               /\ pc' = "signin_check"
               /\ UNCHANGED <<cache, ctx, ret>>
    /\ UNCHANGED <<otherModules, server, gCarePackageCache, rnd, budget,
                   created, nwipes>>
    /\ UNCHANGED lockDepth

\* ABC_LoginUpdateLoginPackageFromServerBuf (lines 1286-1307): what it
\* returns when the server answers srv.  fail: the server cannot be reached;
\* wrFail: LoginPackage.json cannot be written.
UpdateFromServerCC(srv, fail, wrFail) ==
    IF fail THEN ServerError
    ELSE IF srv # Ok THEN srv
    ELSE IF wrFail THEN FileError
    ELSE Ok

\* Lines 180-185 with every error of the refresh ending the sign-in.
RefreshEndsSignInOnAnyError(cc_fetch) == cc_fetch # Ok

\* Lines 180-185 with no error of the refresh ending the sign-in.
RefreshNeverEndsSignIn(cc_fetch) == FALSE

\* Lines 180-185: only BadPassword from the refresh ends the sign-in.
RefreshEndsSignIn(cc_fetch) == cc_fetch = BadPassword

\* Lines 177-185 of ABC_LoginSignIn: the login package is refreshed from the
\* server; on success the server's login package replaces LoginPackage.json,
\* BadPassword ends the sign-in through the exit block, any other error is
\* dropped.
SignInRefresh ==
    /\ pc = "signin_refresh"
    /\ \E fail \in FaultSet, wrFail \in FaultSet :
       LET k   == cache[ctx.idx]
           srv == ServerGetLoginPackageCC(server, k.L1, k.LP1, NULL)
           cc  == UpdateFromServerCC(srv, fail, wrFail)
           c1  == [ctx EXCEPT !.offline = fail,
                              !.refused = ~fail /\ srv = BadPassword,
                              !.faulted = ctx.faulted \/ wrFail]
       IN  /\ wrFail => ~fail /\ srv = Ok
           /\ Charge(fail \/ wrFail)
           /\ IF RefreshEndsSignIn(cc)
              THEN /\ cache' = LoginClearKeyCache(cache)
                   /\ pc' = "idle"
                   /\ ret' = RetOf(c1, cc, FALSE, FALSE)
                   /\ ctx' = IdleCtx
                   /\ UNCHANGED disk
              ELSE /\ disk' = IF cc # Ok \/ k.accountNum \notin Slots
                                 \/ ~disk[k.accountNum].exists
                              THEN disk
                              ELSE [disk EXCEPT ![k.accountNum].login =
                                      server[k.L1].login]
                   /\ pc' = "signin_check"
                   /\ ctx' = c1
                   /\ UNCHANGED <<cache, ret>>
    /\ UNCHANGED <<otherModules, server, gCarePackageCache, rnd, budget,
                   created, nwipes>>
    /\ LockedHelpersRun

\* ABC_LoginUpdateLoginPackageFromServer(szUserName, szPassword) (lines
\* 1273-1283): ABC_LoginCacheKeys, ABC_LoginGetKey(LP1), then
\* ABC_LoginUpdateLoginPackageFromServerBuf with the L1 and LP1 of the entry.
UpdateLoginPackageFromServer(u, pw) ==
    /\ MayStart
    /\ budget' = budget - 1
    /\ \E fail \in FaultSet, wrFail \in FaultSet :
       \E ck \in {LoginCacheKeys(cache, disk, u, pw, FALSE)} :
       \E r \in {LoginGetKey(ck.cache, disk, u, pw, "LP1", FALSE)} :
          LET c0  == StartCtx("updateLoginPackage", u, pw, NoStr, NoStr, NoStr)
              k   == r.cache[LoginKeyFromCacheByName(r.cache, u)]
              srv == ServerGetLoginPackageCC(server, k.L1, r.key, NULL)
              cc  == UpdateFromServerCC(srv, fail, wrFail)
          IN  IF ck.cc # Ok \/ r.cc # Ok
              THEN /\ ~fail /\ ~wrFail
                   /\ cache' = r.cache
                   /\ ret' = RetOf(c0, IF ck.cc # Ok THEN ck.cc ELSE r.cc,
                                   FALSE, FALSE)
                   /\ UNCHANGED <<disk, nfaults>>
              ELSE /\ wrFail => ~fail /\ srv = Ok
                   /\ Charge(fail \/ wrFail)
                   /\ cache' = r.cache
                   /\ disk' = IF cc # Ok THEN disk
                              ELSE [disk EXCEPT ![k.accountNum].login =
                                      server[k.L1].login]
                   /\ ret' = [RetOf(c0, cc, FALSE, fail \/ wrFail)
                                EXCEPT !.sent = r.key]
    /\ UNCHANGED <<otherModules, server, gCarePackageCache, pc, ctx, rnd,
                   created, nwipes>>
    /\ LockedHelpersRun

\* ABC_LoginGetKey (lines 1657-1759) called for the master key or for LP2.
GetKey(u, pw, keyType) ==
    /\ MayStart
    /\ budget' = budget - 1
    /\ \E r \in {LoginGetKey(cache, disk, u, pw, keyType, FALSE)} :
          /\ cache' = r.cache
          /\ ret' = [RetOf(StartCtx("getKey", u, pw, NoStr, NoStr, NoStr),
                           r.cc, FALSE, FALSE)
                       EXCEPT !.keyType = keyType, !.key = r.key]
    /\ UNCHANGED <<otherModules, disk, server, gCarePackageCache, pc, ctx, rnd,
                   nfaults, created, nwipes>>
    /\ LockedHelpersRun

\* ABC_LoginCheckCredentials (lines 115-134) as called from ABC_LoginSignIn.
SignInCheck ==
    /\ pc = "signin_check"
    /\ \E rdFail \in FaultSet :
       /\ Charge(rdFail)
       /\ \E ck \in {LoginCacheKeys(cache, disk, ctx.u, ctx.p, rdFail)} :
              IF ~LoginDirExists(disk, ctx.u)
              THEN /\ rdFail = FALSE
                   /\ SignInReturn(AccountDoesNotExist, FALSE, cache)
              ELSE IF ck.cc # Ok THEN SignInReturn(ck.cc, rdFail, ck.cache)
              ELSE /\ cache' = ck.cache
                   /\ pc' = "signin_info"
                   /\ UNCHANGED <<ctx, ret>>
    /\ UNCHANGED <<otherModules, disk, server, gCarePackageCache, rnd, budget,
                   created, nwipes>>
    /\ LockedHelpersRun

\* Line 192: ABC_GeneralUpdateInfo under ABC_CHECK_RET.
SignInInfo ==
    /\ pc = "signin_info"
    /\ \E fail \in FaultSet :
       /\ Charge(fail)
       /\ IF fail THEN SignInReturn(ServerError, TRUE, cache)
          ELSE SignInReturn(Ok, FALSE, cache)
    /\ UNCHANGED <<otherModules, disk, server, gCarePackageCache, rnd, budget,
                   created, nwipes>>
    /\ UNCHANGED lockDepth

\* ------------------------------------------------------------ set recovery
\* szRecoveryQuestions with its terminating NUL, as pKeys->RQ holds it.
RQBuf(q) == <<"rq", q>>

\* Lines 608-662 of ABC_LoginSetRecovery: LRA, LRA1, LRA3 and RQ are replaced
\* in the cached record, L4, L1 and LP1 are filled in when missing.
SetRecoveryKeys(k, q, a) ==
    LET LRA == BufAppend(k.L, a)
    IN  [k EXCEPT
           !.LRA = LRA,
           !.LRA1 = Scrypt(LRA, k.pSNRP1),
           !.LRA3 = Scrypt(LRA, k.pSNRP3),
           !.L4 = IF k.L4 = NULL THEN Scrypt(k.L, k.pSNRP4) ELSE k.L4,
           !.RQ = RQBuf(q),
           !.L1 = IF k.L1 = NULL THEN Scrypt(k.L, k.pSNRP1) ELSE k.L1,
           !.LP1 = IF k.LP1 = NULL THEN Scrypt(k.LP, k.pSNRP1) ELSE k.LP1]

\* ABC_LoginSetRecovery returns cc; its exit block leaves the cache alone.
SetRecoveryReturn(cc, fail) ==
    /\ pc' = "idle"
    /\ ret' = RetOf(ctx, cc, FALSE, fail)
    /\ ctx' = IdleCtx

\* Lines 586-684: the directory check, ABC_LoginCacheKeys, the asserts, the
\* keys, the new login package and the new care package.  bldFail: building
\* the packages fails after the cached record has been changed.  ctx.keys
\* remembers the record as ABC_LoginCacheKeys handed it over, before lines
\* 608-662 changed it.
SetRecoveryCall(u, p, q, a) ==
    /\ MayStart
    /\ budget' = budget - 1
    /\ LET c0 == StartCtx("setRecovery", u, p, a, q, NoStr)
           n  == LoginDirGetNumber(disk, u)
       IN  IF n < 0
           THEN /\ ret' = RetOf(c0, AccountDoesNotExist, FALSE, FALSE)
                /\ UNCHANGED <<cache, pc, ctx, rnd, nfaults>>
           ELSE \E rdFail \in FaultSet, bldFail \in FaultSet :
                /\ ~(rdFail /\ bldFail)
                /\ Charge(rdFail \/ bldFail)
                /\ \E ck \in {LoginCacheKeys(cache, disk, u, p, rdFail)} :
                       IF ck.cc # Ok
                       THEN /\ bldFail = FALSE
                            /\ cache' = ck.cache
                            /\ ret' = RetOf(c0, ck.cc, FALSE, rdFail)
                            /\ UNCHANGED <<pc, ctx, rnd>>
                       ELSE LET k  == ck.cache[ck.idx]
                                k1 == SetRecoveryKeys(k, q, a)
                                lp == UpdateLoginPackage(k1, disk, k1.MK,
                                         k1.szRepoAcctKey, k1.LP2, k1.LRA3,
                                         rnd + 1)
                                cc == UpdateLoginPackageCC(k1, disk, k1.MK,
                                         k1.szRepoAcctKey)
                                old == disk[n].care
                            IN  IF k.P = NoStr \/ k.LP2 = NULL
                                   \/ k.pSNRP3 = NULL \/ k.pSNRP4 = NULL
                                THEN /\ bldFail = FALSE
                                     /\ cache' = ck.cache
                                     /\ ret' = RetOf(c0, Error, FALSE, FALSE)
                                     /\ UNCHANGED <<pc, ctx, rnd>>
                                ELSE IF bldFail \/ cc # Ok \/ old = NULL
                                THEN /\ cache' = [ck.cache EXCEPT ![ck.idx] = k1]
                                     /\ ret' = RetOf(c0,
                                                 IF bldFail THEN Error
                                                 ELSE IF cc # Ok THEN cc
                                                 ELSE FileError,
                                                 FALSE, bldFail)
                                     /\ UNCHANGED <<pc, ctx, rnd>>
                                ELSE /\ cache' = [ck.cache EXCEPT ![ck.idx] = k1]
                                     /\ rnd' = rnd + 1
                                     /\ ctx' = [c0 EXCEPT
                                          !.idx = ck.idx,
                                          !.keys = k,
                                          !.login = lp,
                                          !.care = CarePackage(
                                             Encrypt(k1.RQ, k1.L4, rnd + 1),
                                             CareSNRP2(old), CareSNRP3(old),
                                             CareSNRP4(old))]
                                     /\ pc' = "setrec_server"
                                     /\ UNCHANGED ret
    /\ UNCHANGED <<otherModules, disk, server, gCarePackageCache, created,
                   nwipes>>
    /\ LockedOperationStarts

\* Lines 687-690 with the return code of ABC_LoginServerSetRecovery dropped.
SetRecoveryServerResultIgnored(cc) == FALSE

\* Lines 687-690: ABC_CHECK_RET leaves for the exit block when
\* ABC_LoginServerSetRecovery does not return Ok.
SetRecoveryServerRefused(cc) == cc # Ok

\* Lines 686-690: ABC_LoginServerSetRecovery(L1, LP1, LRA1, care, login).
SetRecoveryServer ==
    /\ pc = "setrec_server"
    /\ LET k == cache[ctx.idx]
       IN  \E fail \in FaultSet :
           /\ Charge(fail)
           /\ \E cc \in {IF fail THEN ServerError
                          ELSE ServerSetRecoveryCC(server, k.L1, k.LP1)} :
                  IF SetRecoveryServerRefused(cc)
                  THEN /\ SetRecoveryReturn(cc, fail)
                       /\ UNCHANGED server
                  ELSE /\ server' = IF fail THEN server
                                    ELSE ServerSetRecovery(server, k.L1, k.LP1,
                                            k.LRA1, ctx.care, ctx.login)
                       /\ pc' = "setrec_care"
                       /\ UNCHANGED <<ctx, ret>>
    /\ UNCHANGED <<otherModules, disk, cache, gCarePackageCache, rnd, budget,
                   created, nwipes>>
    /\ LockedOperationSteps

\* Lines 692-699: CarePackage.json of Account_<pKeys->accountNum>.
SetRecoveryCare ==
    /\ pc = "setrec_care"
    /\ \E fail \in FaultSet :
       /\ Charge(fail)
       /\ IF fail
          THEN /\ SetRecoveryReturn(FileError, TRUE)
               /\ UNCHANGED disk
          ELSE /\ disk' = [disk EXCEPT ![cache[ctx.idx].accountNum].care = ctx.care]
               /\ pc' = "setrec_login"
               /\ UNCHANGED <<ctx, ret>>
    /\ UNCHANGED <<otherModules, server, cache, gCarePackageCache, rnd,
                   budget, created, nwipes>>
    /\ LockedOperationSteps

\* Lines 701-703: LoginPackage.json.
SetRecoveryLogin ==
    /\ pc = "setrec_login"
    /\ \E fail \in FaultSet :
       /\ Charge(fail)
       /\ IF fail
          THEN /\ SetRecoveryReturn(FileError, TRUE)
               /\ UNCHANGED disk
          ELSE /\ disk' = [disk EXCEPT ![cache[ctx.idx].accountNum].login = ctx.login]
               /\ pc' = "setrec_sync"
               /\ UNCHANGED <<ctx, ret>>
    /\ UNCHANGED <<otherModules, server, cache, gCarePackageCache, rnd,
                   budget, created, nwipes>>
    /\ LockedOperationSteps

\* ABC_LoginSyncData(szUserName, szPassword) (lines 2102-2117): the sync keys,
\* then ABC_SyncRepo.  Gives cc and the cache afterwards.
SyncDataRepo(sk, fail) ==
    IF sk.cc # Ok THEN [cc |-> sk.cc, cache |-> sk.cache]
    ELSE [cc |-> IF fail THEN SysError ELSE Ok, cache |-> sk.cache]
LoginSyncData(c, d, u, pw, fail) ==
    SyncDataRepo(LoginGetSyncKeys(c, d, u, pw, FALSE), fail)

\* Line 706: ABC_LoginSyncData(pKeys->szUserName, pKeys->szPassword).
SetRecoverySync ==
    /\ pc = "setrec_sync"
    /\ \E fail \in FaultSet :
       /\ Charge(fail)
       /\ \E sd \in {LoginSyncData(cache, disk, cache[ctx.idx].szUserName,
                                    cache[ctx.idx].szPassword, fail)} :
              /\ cache' = sd.cache
              /\ SetRecoveryReturn(sd.cc, fail)
    /\ UNCHANGED <<otherModules, disk, server, gCarePackageCache, rnd, budget,
                   created, nwipes>>
    /\ LockedOperationSteps

\* --------------------------------------------------------- change password
\* The exit block of ABC_LoginChangePassword (lines 857-872): the whole key
\* cache is cleared on any error.
ChangePasswordReturn(cc, fail, c) ==
    /\ cache' = IF cc # Ok THEN LoginClearKeyCache(c) ELSE c
    /\ pc' = "idle"
    /\ ret' = RetOf(ctx, cc, FALSE, fail)
    /\ ctx' = IdleCtx

\* Lines 762-804 with LRA1 derived under SNRP3 instead of SNRP1.
ChangePasswordOldLRA1UnderSNRP3(k, lp, p, a) ==
    IF p # NoStr
    THEN IF k.LP2 = NULL
         THEN [cc |-> Error, k |-> k, LRA3 |-> NULL, oldLP1 |-> NULL, LRA1 |-> NULL]
         ELSE [cc |-> Ok, k |-> k, LRA3 |-> k.LRA3,
               oldLP1 |-> Scrypt(BufAppend(k.L, k.P), k.pSNRP1), LRA1 |-> NULL]
    ELSE LET LRA  == BufAppend(k.L, a)
             LRA3 == Scrypt(LRA, k.pSNRP3)
             cc1  == IF lp = NULL THEN FileError ELSE DecryptCC(LoginELP2(lp), LRA3)
             cc2  == IF cc1 # Ok THEN cc1
                     ELSE DecryptCC(LoginEMK(lp), DecryptPlain(LoginELP2(lp)))
         IN  IF k.pSNRP3 = NULL
             THEN [cc |-> Error, k |-> k, LRA3 |-> NULL, oldLP1 |-> NULL, LRA1 |-> NULL]
             ELSE IF cc2 # Ok
             THEN [cc |-> cc2, k |-> k, LRA3 |-> LRA3, oldLP1 |-> NULL, LRA1 |-> NULL]
             ELSE [cc |-> Ok, k |-> [k EXCEPT !.MK = DecryptPlain(LoginEMK(lp))],
                   LRA3 |-> LRA3, oldLP1 |-> NULL,
                   LRA1 |-> Scrypt(LRA, k.pSNRP3)]

\* Lines 762-804: what authenticates the change.  With the password: the
\* cached LRA3 and the LP1 of the cached L and P.  With the answers: LRA3 and
\* LRA1 of the answers, the old LP2 out of ELP2 and MK out of EMK, both
\* decrypted under ABC_CHECK_RET.
ChangePasswordOld(k, lp, p, a) ==
    IF p # NoStr
    THEN IF k.LP2 = NULL
         THEN [cc |-> Error, k |-> k, LRA3 |-> NULL, oldLP1 |-> NULL, LRA1 |-> NULL]
         ELSE [cc |-> Ok, k |-> k, LRA3 |-> k.LRA3,
               oldLP1 |-> Scrypt(BufAppend(k.L, k.P), k.pSNRP1), LRA1 |-> NULL]
    ELSE LET LRA  == BufAppend(k.L, a)
             LRA3 == Scrypt(LRA, k.pSNRP3)
             cc1  == IF lp = NULL THEN FileError ELSE DecryptCC(LoginELP2(lp), LRA3)
             cc2  == IF cc1 # Ok THEN cc1
                     ELSE DecryptCC(LoginEMK(lp), DecryptPlain(LoginELP2(lp)))
         IN  IF k.pSNRP3 = NULL
             THEN [cc |-> Error, k |-> k, LRA3 |-> NULL, oldLP1 |-> NULL, LRA1 |-> NULL]
             ELSE IF cc2 # Ok
             THEN [cc |-> cc2, k |-> k, LRA3 |-> LRA3, oldLP1 |-> NULL, LRA1 |-> NULL]
             ELSE [cc |-> Ok, k |-> [k EXCEPT !.MK = DecryptPlain(LoginEMK(lp))],
                   LRA3 |-> LRA3, oldLP1 |-> NULL,
                   LRA1 |-> Scrypt(LRA, k.pSNRP1)]

\* Lines 810-839 without the new LP2.
ChangePasswordKeysOldLP2(k, np) ==
    LET LP == BufAppend(k.L, np)
    IN  [k EXCEPT
           !.szPassword = np, !.P = np, !.LP = LP,
           !.LP1 = Scrypt(LP, k.pSNRP1),
           !.L1 = IF k.L1 = NULL THEN Scrypt(k.L, k.pSNRP1) ELSE k.L1]

\* Lines 810-839: the new password, P, LP, LP1 and LP2 in the cached record.
ChangePasswordKeys(k, np) ==
    LET LP == BufAppend(k.L, np)
    IN  [k EXCEPT
           !.szPassword = np, !.P = np, !.LP = LP,
           !.LP1 = Scrypt(LP, k.pSNRP1),
           !.LP2 = Scrypt(LP, k.pSNRP2),
           !.L1 = IF k.L1 = NULL THEN Scrypt(k.L, k.pSNRP1) ELSE k.L1]

\* Lines 752-842.
ChangePasswordCall(u, p, a, np) ==
    /\ MayStart
    /\ budget' = budget - 1
    /\ LET c0 == StartCtx("changePassword", u, p, a, NoStr, np)
           n  == LoginDirGetNumber(disk, u)
       IN  IF n < 0
           THEN /\ cache' = LoginClearKeyCache(cache)
                /\ ret' = RetOf(c0, AccountDoesNotExist, FALSE, FALSE)
                /\ UNCHANGED <<pc, ctx, rnd, nfaults>>
           ELSE \E rdFail \in FaultSet :
                /\ Charge(rdFail)
                /\ \E ck \in {LoginCacheKeys(cache, disk, u, p, rdFail)} :
                       IF ck.cc # Ok
                       THEN /\ cache' = LoginClearKeyCache(ck.cache)
                            /\ ret' = RetOf(c0, ck.cc, FALSE, rdFail)
                            /\ UNCHANGED <<pc, ctx, rnd>>
                       ELSE LET k   == ck.cache[ck.idx]
                                old == ChangePasswordOld(k,
                                          disk[k.accountNum].login, p, a)
                                k2  == ChangePasswordKeys(old.k, np)
                                cc  == UpdateLoginPackageCC(k2, disk, k2.MK,
                                          k2.szRepoAcctKey)
                            IN  IF old.cc # Ok \/ cc # Ok
                                THEN /\ cache' = LoginClearKeyCache(ck.cache)
                                     /\ ret' = RetOf(c0,
                                                 IF old.cc # Ok THEN old.cc ELSE cc,
                                                 FALSE, FALSE)
                                     /\ UNCHANGED <<pc, ctx, rnd>>
                                ELSE /\ cache' = [ck.cache EXCEPT ![ck.idx] = k2]
                                     /\ rnd' = rnd + 1
                                     /\ ctx' = [c0 EXCEPT
                                          !.idx = ck.idx, !.dir = n,
                                          !.oldLP1 = old.oldLP1,
                                          !.LRA1 = old.LRA1,
                                          !.login = UpdateLoginPackage(k2, disk,
                                             k2.MK, k2.szRepoAcctKey, k2.LP2,
                                             old.LRA3, rnd + 1)]
                                     /\ pc' = "chpw_server"
                                     /\ UNCHANGED ret
    /\ UNCHANGED <<otherModules, disk, server, gCarePackageCache, created,
                   nwipes>>
    /\ LockedOperationStarts

\* Line 845 with the return code of ABC_LoginServerChangePassword dropped.
ChangePasswordServerResultIgnored(cc) == FALSE

\* Line 845: ABC_CHECK_RET leaves for the exit block when
\* ABC_LoginServerChangePassword does not return Ok.
ChangePasswordServerRefused(cc) == cc # Ok

\* Lines 844-845: ABC_LoginServerChangePassword(L1, oldLP1, LRA1, LP1, login).
ChangePasswordServer ==
    /\ pc = "chpw_server"
    /\ LET k == cache[ctx.idx]
       IN  \E fail \in FaultSet :
           /\ Charge(fail)
           /\ \E cc \in {IF fail THEN ServerError
                          ELSE ServerChangePasswordCC(server, k.L1, ctx.oldLP1,
                                                      ctx.LRA1)} :
                  IF ChangePasswordServerRefused(cc)
                  THEN /\ ChangePasswordReturn(cc, fail, cache)
                       /\ UNCHANGED server
                  ELSE /\ server' = IF fail THEN server
                                    ELSE ServerChangePassword(server, k.L1,
                                            ctx.oldLP1, ctx.LRA1, k.LP1,
                                            ctx.login)
                       /\ pc' = "chpw_write"
                       /\ UNCHANGED <<cache, ctx, ret>>
    /\ UNCHANGED <<otherModules, disk, gCarePackageCache, rnd, budget,
                   created, nwipes>>
    /\ LockedOperationSteps

\* Lines 847-849: LoginPackage.json of the directory found at line 755.
ChangePasswordWrite ==
    /\ pc = "chpw_write"
    /\ \E fail \in FaultSet :
       /\ Charge(fail)
       /\ IF fail
          THEN /\ ChangePasswordReturn(FileError, TRUE, cache)
               /\ UNCHANGED disk
          ELSE /\ disk' = [disk EXCEPT ![ctx.dir].login = ctx.login]
               /\ pc' = "chpw_wallet"
               /\ UNCHANGED <<cache, ctx, ret>>
    /\ UNCHANGED <<otherModules, server, gCarePackageCache, rnd, budget,
                   created, nwipes>>
    /\ LockedOperationSteps

\* Lines 851-852: ABC_WalletClearCache; the wallet cache belongs to the wallet
\* layer and holds nothing of the login state.
ChangePasswordWallet ==
    /\ pc = "chpw_wallet"
    /\ \E fail \in FaultSet :
       /\ Charge(fail)
       /\ IF fail
          THEN ChangePasswordReturn(Error, TRUE, cache)
          ELSE /\ pc' = "chpw_sync"
               /\ UNCHANGED <<cache, ctx, ret>>
    /\ UNCHANGED <<otherModules, disk, server, gCarePackageCache, rnd, budget,
                   created, nwipes>>
    /\ LockedOperationSteps

\* Lines 854-856: ABC_LoginSyncData(szUserName, szNewPassword).
ChangePasswordSync ==
    /\ pc = "chpw_sync"
    /\ \E fail \in FaultSet :
       /\ Charge(fail)
       /\ \E sd \in {LoginSyncData(cache, disk, ctx.u, ctx.np, fail)} :
              ChangePasswordReturn(sd.cc, fail, sd.cache)
    /\ UNCHANGED <<otherModules, disk, server, gCarePackageCache, rnd, budget,
                   created, nwipes>>
    /\ LockedOperationSteps

\* ------------------------------------------------------ recovery questions
\* ABC_LoginFetchRecoveryQuestions on the care package the server returned:
\* the questions and their return code.
FetchedQuestions(u, care) ==
    LET L4 == Scrypt(u, CareSNRP4(care))
    IN  IF CareERQ(care) = NULL THEN [cc |-> Ok, q |-> RQBuf("")]
        ELSE IF DecryptCC(CareERQ(care), L4) # Ok
             THEN [cc |-> DecryptCC(CareERQ(care), L4), q |-> NULL]
        ELSE [cc |-> Ok, q |-> DecryptPlain(CareERQ(care))]

\* Line 1997 asking the server whether or not the account has a directory.
QuestionsAlwaysFromServer(d, u) == TRUE

\* Line 1997: the questions come from the server when ABC_LoginDirExists does
\* not return Ok, from the account directory otherwise.
QuestionsFromServer(d, u) == ~LoginDirExists(d, u)

\* ABC_LoginGetRecoveryQuestions (lines 1978-2016): the cached care package
\* is dropped; without a local directory the care package is fetched from the
\* server and kept in gCarePackageCache, with one the questions are read
\* through ABC_LoginGetKey(RQ).
GetRecoveryQuestions(u) ==
    /\ MayStart
    /\ budget' = budget - 1
    /\ LET c0 == [StartCtx("getRecoveryQuestions", u, NoStr, NoStr, NoStr, NoStr)
                   EXCEPT !.remote = QuestionsFromServer(disk, u)]
           L1 == Scrypt(u, SNRPForServer)
       IN  \E fail \in FaultSet :
           /\ Charge(fail)
           /\ IF QuestionsFromServer(disk, u)
              THEN LET cc == ServerGetCarePackageCC(server, L1)
                       fq == FetchedQuestions(u, server[L1].care)
                   IN  IF fail \/ cc # Ok
                       THEN /\ gCarePackageCache' = NULL
                            /\ ret' = RetOf(c0, IF fail THEN ServerError ELSE cc,
                                            FALSE, fail)
                            /\ UNCHANGED cache
                       ELSE /\ gCarePackageCache' = server[L1].care
                            /\ ret' = [RetOf(c0, fq.cc, FALSE, FALSE)
                                         EXCEPT !.q = fq.q]
                            /\ UNCHANGED cache
              ELSE \E r \in {LoginGetKey(cache, disk, u, NoStr, "RQ", fail)} :
                       /\ gCarePackageCache' = NULL
                       /\ cache' = r.cache
                       /\ ret' = [RetOf(c0, r.cc, FALSE, fail) EXCEPT !.q = r.key]
    /\ UNCHANGED <<otherModules, disk, server, pc, ctx, rnd, created, nwipes>>
    /\ IF QuestionsFromServer(disk, u)
          THEN UNCHANGED lockDepth ELSE LockedHelpersRun

\* -------------------------------------------------- check recovery answers
CheckReturn(cc, valid, fail) ==
    /\ pc' = "idle"
    /\ ret' = RetOf(ctx, cc, valid, fail)
    /\ ctx' = IdleCtx

\* Lines 1791-1798: with a cached care package the answers go to the server
\* first.
CheckRecoveryAnswersCall(u, a) ==
    /\ MayStart
    /\ budget' = budget - 1
    /\ ctx' = [StartCtx("checkRecoveryAnswers", u, NoStr, a, NoStr, NoStr)
                 EXCEPT !.remote = gCarePackageCache # NULL]
    /\ pc' = IF gCarePackageCache # NULL THEN "check_server" ELSE "check_local"
    /\ UNCHANGED <<otherModules, disk, server, cache, gCarePackageCache, ret,
                   rnd, nfaults, created, nwipes>>
    /\ UNCHANGED lockDepth

\* Lines 1800-1810: ABC_LoginServerGetLoginPackage(L1, NULL, LRA1).
CheckServer ==
    /\ pc = "check_server"
    /\ LET L1   == Scrypt(ctx.u, SNRPForServer)
           LRA1 == Scrypt(BufAppend(ctx.u, ctx.a), SNRPForServer)
           cc   == ServerGetLoginPackageCC(server, L1, NULL, LRA1)
       IN  \E fail \in FaultSet :
           /\ Charge(fail)
           /\ IF fail THEN CheckReturn(ServerError, FALSE, TRUE)
              ELSE IF cc # Ok THEN CheckReturn(cc, FALSE, FALSE)
              ELSE /\ ctx' = [ctx EXCEPT !.login = server[L1].login]
                   /\ pc' = "check_init"
                   /\ UNCHANGED ret
    /\ UNCHANGED <<otherModules, disk, server, cache, gCarePackageCache, rnd,
                   budget, created, nwipes>>
    /\ UNCHANGED lockDepth

\* Lines 1812-1818: ABC_LoginInitPackages with the cached care package, which
\* is released once the packages are written.
CheckInit ==
    /\ pc = "check_init"
    /\ \E failAt \in InitFaultSet :
       /\ Charge(failAt # 0)
       /\ disk' = InitPackagesDisk(disk, ctx.u, gCarePackageCache, ctx.login,
                                   failAt)
       /\ IF failAt # 0
          THEN /\ CheckReturn(InitPackagesCC(failAt), FALSE, TRUE)
               /\ UNCHANGED gCarePackageCache
          ELSE /\ gCarePackageCache' = NULL
               /\ ctx' = [ctx EXCEPT !.dir = LoginDirNewNumber(disk)]
               /\ pc' = "check_repo"
               /\ UNCHANGED ret
    /\ UNCHANGED <<otherModules, server, cache, rnd, budget, created, nwipes>>
    /\ UNCHANGED lockDepth

\* ABC_LoginRepoSetup (lines 502-557) on the sync directory of
\* Account_<accountNum>.  failAt = 1..3: ABC_LoginCreateSync, ABC_SyncMakeRepo
\* or ABC_SyncRepo fails.
RepoSteps == 0 .. 3
RepoSetupCC(lp, L4, failAt) ==
    IF lp = NULL THEN FileError
    ELSE IF DecryptCC(LoginESyncKey(lp), L4) = DecryptFailure THEN BadPassword
    ELSE IF DecryptCC(LoginESyncKey(lp), L4) # Ok
         THEN DecryptCC(LoginESyncKey(lp), L4)
    ELSE IF failAt # 0 THEN SysError
    ELSE Ok
\* ABC_LoginRepoSetup returning before ABC_LoginCreateSync.
RepoSetupDiskNoSync(d, n, L4, failAt) == d

RepoSetupDisk(d, n, L4, failAt) ==
    IF RepoSetupCC(d[n].login, L4, 1) # SysError \/ failAt = 1 THEN d
    ELSE [d EXCEPT ![n].sync = CASE failAt = 2 -> "dir"
                                 [] failAt = 3 -> "repo"
                                 [] OTHER -> "synced"]
RepoFaultSet == IF nfaults < MaxFaults THEN RepoSteps ELSE {0}

\* Lines 1820-1824: ABC_LoginCacheKeys(szUserName, NULL), ABC_LoginRepoSetup.
CheckRepo ==
    /\ pc = "check_repo"
    /\ \E failAt \in RepoFaultSet :
       /\ Charge(failAt # 0)
       /\ \E ck \in {LoginCacheKeys(cache, disk, ctx.u, NoStr, FALSE)} :
          LET k  == ck.cache[ck.idx]
              cc == RepoSetupCC(disk[k.accountNum].login, k.L4, failAt)
          IN  /\ cache' = ck.cache
              /\ IF ck.cc # Ok
                 THEN /\ failAt = 0
                      /\ CheckReturn(ck.cc, FALSE, FALSE)
                      /\ UNCHANGED disk
                 ELSE /\ disk' = RepoSetupDisk(disk, k.accountNum, k.L4, failAt)
                      /\ IF cc # Ok
                         THEN CheckReturn(cc, FALSE, failAt # 0)
                         ELSE /\ pc' = "check_local"
                              /\ UNCHANGED <<ctx, ret>>
    /\ UNCHANGED <<otherModules, server, gCarePackageCache, rnd, budget,
                   created, nwipes>>
    /\ LockedHelpersRun

\* Lines 1834-1891 with LRA3 derived under SNRP2 instead of SNRP3.
CheckAnswersLRA3UnderSNRP2(k, lp, a) ==
    LET LRA  == BufAppend(k.L, a)
        LRA3 == Scrypt(LRA, k.pSNRP2)
        cc   == IF lp = NULL THEN FileError ELSE DecryptCC(LoginELP2(lp), LRA3)
    IN  IF k.LRA # NoStr THEN [cc |-> Ok, valid |-> LRA = k.LRA, k |-> k]
        ELSE IF cc = Ok
             THEN [cc |-> Ok, valid |-> TRUE,
                   k |-> [k EXCEPT !.LRA = LRA, !.LRA3 = LRA3,
                                   !.LRA1 = Scrypt(LRA, k.pSNRP1),
                                   !.LP2 = DecryptPlain(LoginELP2(lp))]]
        ELSE IF cc = DecryptFailure THEN [cc |-> Ok, valid |-> FALSE, k |-> k]
        ELSE [cc |-> cc, valid |-> FALSE, k |-> k]

\* Lines 1834-1891 on entry k and login package lp: against a cached LRA the
\* answers are compared; otherwise ELP2 is decrypted under the LRA3 of the
\* answers and, when that works, LRA, LRA3, LRA1 and the decrypted LP2 are
\* cached.
CheckAnswers(k, lp, a) ==
    LET LRA  == BufAppend(k.L, a)
        LRA3 == Scrypt(LRA, k.pSNRP3)
        cc   == IF lp = NULL THEN FileError ELSE DecryptCC(LoginELP2(lp), LRA3)
    IN  IF k.LRA # NoStr THEN [cc |-> Ok, valid |-> LRA = k.LRA, k |-> k]
        ELSE IF cc = Ok
             THEN [cc |-> Ok, valid |-> TRUE,
                   k |-> [k EXCEPT !.LRA = LRA, !.LRA3 = LRA3,
                                   !.LRA1 = Scrypt(LRA, k.pSNRP1),
                                   !.LP2 = DecryptPlain(LoginELP2(lp))]]
        ELSE IF cc = DecryptFailure THEN [cc |-> Ok, valid |-> FALSE, k |-> k]
        ELSE [cc |-> cc, valid |-> FALSE, k |-> k]

\* Lines 1827-1891.
CheckLocal ==
    /\ pc = "check_local"
    /\ \E rdFail \in FaultSet :
       /\ Charge(rdFail)
       /\ \E ck \in {LoginCacheKeys(cache, disk, ctx.u, NoStr, rdFail)} :
          LET k  == ck.cache[ck.idx]
              r  == CheckAnswers(k, disk[k.accountNum].login, ctx.a)
          IN  IF ck.cc # Ok
              THEN /\ cache' = ck.cache
                   /\ CheckReturn(ck.cc, FALSE, rdFail)
              ELSE /\ cache' = [ck.cache EXCEPT ![ck.idx] = r.k]
                   /\ pc' = "idle"
                   /\ ret' = [RetOf(ctx, r.cc, r.valid, FALSE)
                                EXCEPT !.hadLRA = k.LRA # NoStr]
                   /\ ctx' = IdleCtx
    /\ UNCHANGED <<otherModules, disk, server, gCarePackageCache, rnd, budget,
                   created, nwipes>>
    /\ LockedHelpersRun

\* --------------------------------------------------------------- sign out
\* ABC_LoginClearKeyCache called by the application.
ClearKeyCache ==
    /\ MayStart
    /\ cache # <<>>
    /\ budget' = budget - 1
    /\ cache' = LoginClearKeyCache(cache)
    /\ ret' = [ret EXCEPT !.cleared = TRUE, !.held = HeldAfterClear(cache)]
    /\ UNCHANGED <<otherModules, disk, server, gCarePackageCache, pc, ctx,
                   rnd, nfaults, created, nwipes>>
    /\ LockedHelpersRun

\* ------------------------------------------------------------- environment
\* The process is killed (or dies) at any point: memory is lost, the store
\* and the server stay as they are.
Kill ==
    /\ pc # "idle"
    /\ pc' = "idle"
    /\ ctx' = IdleCtx
    /\ cache' = <<>>
    /\ gCarePackageCache' = NULL
    /\ ret' = [NoRet EXCEPT !.op = "kill"]
    /\ UNCHANGED <<otherModules, disk, server, rnd, budget, nfaults, created,
                   nwipes>>
    /\ lockDepth' = 0

\* Another thread calls ABC_LoginClearKeyCache while a public operation is
\* running: ABC_LoginMutexLock (line 1316) lets it in when the running
\* operation does not hold the lock.  Only positions where the running
\* operation keeps no pointer to a cached record are taken.
ConcurrentClearKeyCache ==
    /\ pc # "idle"
    /\ ~ctx.locked
    /\ ctx.idx = 0
    /\ cache # <<>>
    /\ cache' = LoginClearKeyCache(cache)
    /\ UNCHANGED <<otherModules, disk, server, gCarePackageCache, pc, ctx,
                   ret, rnd, budget, nfaults, created, nwipes>>
    /\ LockedHelpersRun

\* The ESyncKey envelope of a LoginPackage.json in the store is damaged: it
\* no longer decrypts under any key.
Damaged == <<"damaged">>
CorruptSyncKey ==
    /\ Idle
    /\ \E n \in Slots :
          /\ disk[n].exists
          /\ disk[n].login # NULL
          /\ EnvKey(LoginESyncKey(disk[n].login)) # Damaged
          /\ disk' = [disk EXCEPT ![n].login =
                        LoginPackage(LoginEMK(disk[n].login),
                           Encrypt(EnvPlain(LoginESyncKey(disk[n].login)),
                                   Damaged, 0),
                           LoginELP2(disk[n].login),
                           LoginELRA3(disk[n].login))]
    /\ ret' = [NoRet EXCEPT !.op = "corrupt"]
    /\ UNCHANGED <<otherModules, server, cache, gCarePackageCache, pc, ctx,
                   rnd, budget, nfaults, created, nwipes>>
    /\ UNCHANGED lockDepth

\* The account is used on a device whose store is empty (a new installation):
\* the server keeps what it holds.
NewDevice ==
    /\ Idle
    /\ nwipes < MaxWipes
    /\ nwipes' = nwipes + 1
    /\ disk' = [n \in Slots |-> NoSlot]
    /\ cache' = <<>>
    /\ gCarePackageCache' = NULL
    /\ ret' = [NoRet EXCEPT !.op = "newDevice"]
    /\ UNCHANGED <<otherModules, server, pc, ctx, rnd, budget, nfaults,
                   created>>
    /\ UNCHANGED lockDepth

\* -------------------------------------------------------------- URL system
\* src/src/ABC_URL.c.  The state of the login core, which no call into
\* ABC_URL.c, cli/Util.cpp or spend/Outputs.cpp touches.
loginCore == <<disk, server, cache, gCarePackageCache, pc, ctx, ret, rnd,
               nfaults, nwipes, created, lockDepth>>

URLs == {NoStr, "url"}
PostData == {NoStr, "data"}
\* Where libcurl fails in one request: nowhere, in a curl_easy_setopt, in
\* curl_easy_perform.
CurlFailures == 0 .. 2
\* The call did not return: the process was brought down.
NoReturn == "<no return>"

\* The last call into ABC_URL.c: its number, function and arguments, the
\* code it returned, whether curl_easy_perform ran in it, and whether it
\* brought the process down.
NoURLCall == [n |-> 0, op |-> "none", szURL |-> NoStr, szPostData |-> NoStr,
              cc |-> Ok, performed |-> FALSE, crashed |-> FALSE]

\* ABC_URLRequest (lines 69-120) and ABC_URLPost (163-221): Data starts as
\* ABC_BUF_NULL and pCurlHandle as NULL, so the exit block is harmless on
\* every path.
URLRequestResult(init, szURL, curlFail) ==
    IF ~init THEN [cc |-> NotInitialized, performed |-> FALSE, crashed |-> FALSE]
    ELSE IF szURL = NoStr
    THEN [cc |-> NULLPtr, performed |-> FALSE, crashed |-> FALSE]
    ELSE IF curlFail = 1
    THEN [cc |-> URLError, performed |-> FALSE, crashed |-> FALSE]
    ELSE IF curlFail = 2
    THEN [cc |-> URLError, performed |-> TRUE, crashed |-> FALSE]
    ELSE [cc |-> Ok, performed |-> TRUE, crashed |-> FALSE]
URLPostResult(init, szURL, szPostData, curlFail) ==
    IF init /\ szURL # NoStr /\ szPostData = NoStr
    THEN [cc |-> NULLPtr, performed |-> FALSE, crashed |-> FALSE]
    ELSE URLRequestResult(init, szURL, curlFail)

\* The exit block of ABC_URLRequestString (lines 151-154) and of
\* ABC_URLPostString (255-258) when one of the function's own checks sent
\* control there: ABC_BUF_FREE(Data) on a Data declared without an
\* initializer (lines 135, 238).  When the pointer it happens to hold is not
\* NULL (garbage) it is passed to free().
StringExitWithoutRequest(cc, garbage) ==
    IF garbage THEN [cc |-> NoReturn, performed |-> FALSE, crashed |-> TRUE]
    ELSE [cc |-> cc, performed |-> FALSE, crashed |-> FALSE]

\* ABC_URLRequestString (lines 128-155) and ABC_URLPostString (230-259).
URLRequestStringResult(init, szURL, curlFail, garbage) ==
    IF ~init THEN StringExitWithoutRequest(NotInitialized, garbage)
    ELSE IF szURL = NoStr THEN StringExitWithoutRequest(NULLPtr, garbage)
    ELSE URLRequestResult(init, szURL, curlFail)
URLPostStringResult(init, szURL, szPostData, curlFail, garbage) ==
    IF ~init THEN StringExitWithoutRequest(NotInitialized, garbage)
    ELSE IF szURL = NoStr \/ szPostData = NoStr
    THEN StringExitWithoutRequest(NULLPtr, garbage)
    ELSE URLPostResult(init, szURL, szPostData, curlFail)

\* A call into ABC_URL.c returns r.
URLCall(op, szURL, szPostData, r) ==
    /\ Idle /\ budget > 0 /\ ~urlRet.crashed
    /\ budget' = budget - 1
    /\ urlRet' = [n |-> urlRet.n + 1, op |-> op, szURL |-> szURL,
                  szPostData |-> szPostData, cc |-> r.cc,
                  performed |-> r.performed, crashed |-> r.crashed]
    /\ UNCHANGED <<loginCore, watcher, spend>>

\* ABC_URLInitialize (lines 28-48), with curl_global_init failing or not.
URLInitialize ==
    \E curlFail \in BOOLEAN :
       LET cc == IF gbInitialized THEN Reinitialization
                 ELSE IF curlFail THEN URLError ELSE Ok
       IN  /\ URLCall("initialize", NoStr, NoStr,
                      [cc |-> cc, performed |-> FALSE, crashed |-> FALSE])
           /\ gbInitialized' = (gbInitialized \/ cc = Ok)

\* ABC_URLTerminate (lines 53-62).
URLTerminate ==
    /\ URLCall("terminate", NoStr, NoStr,
               [cc |-> Ok, performed |-> FALSE, crashed |-> FALSE])
    /\ gbInitialized' = FALSE

URLRequest(szURL) ==
    \E curlFail \in CurlFailures :
       /\ URLCall("request", szURL, NoStr,
                  URLRequestResult(gbInitialized, szURL, curlFail))
       /\ UNCHANGED gbInitialized
URLRequestString(szURL) ==
    \E curlFail \in CurlFailures, garbage \in BOOLEAN :
       /\ URLCall("requestString", szURL, NoStr,
                  URLRequestStringResult(gbInitialized, szURL, curlFail,
                                         garbage))
       /\ UNCHANGED gbInitialized
URLPost(szURL, szPostData) ==
    \E curlFail \in CurlFailures :
       /\ URLCall("post", szURL, szPostData,
                  URLPostResult(gbInitialized, szURL, szPostData, curlFail))
       /\ UNCHANGED gbInitialized
URLPostString(szURL, szPostData) ==
    \E curlFail \in CurlFailures, garbage \in BOOLEAN :
       /\ URLCall("postString", szURL, szPostData,
                  URLPostStringResult(gbInitialized, szURL, szPostData,
                                      curlFail, garbage))
       /\ UNCHANGED gbInitialized

\* ---------------------------------------------------------- watcher thread
\* src/cli/Util.cpp, class WatcherThread.
Uuids == {"w1", "w2"}

\* A WatcherThread object: where its owner is in it (pc: "new" constructed,
\* "init" inside init at call i, "failed" / "ready" init has returned,
\* "dtor" inside the destructor at call i, "destroyed"), uuid_, thread_
\* ("null", or the state of the std::thread it points to: "running" inside
\* ABC_WatcherLoop, "finished"), and the calls made for it so far, each with
\* whether it succeeded and the state of thread_ when it was made.  n counts
\* the objects constructed.
NewWatcher(n) == [pc |-> "new", i |-> 0, uuid |-> NoStr, thread |-> "null",
                  calls |-> <<>>, n |-> n]

\* WatcherThread::init, lines 74-77, and the destructor, lines 63-65, as
\* the calls each makes in turn.
WatcherInitOrder == <<"start", "spawn", "watch", "connect">>
WatcherDtorDeletesBeforeJoin == <<"stop", "delete", "join">>
WatcherDtorOrder == <<"stop", "join", "delete">>

WatcherStep(next) ==
    /\ watcher' = next
    /\ UNCHANGED <<loginCore, budget, gbInitialized, urlRet, spend>>

\* The owner calls init(session): line 73.
WatcherInitCall(uuid) ==
    /\ watcher.pc = "new"
    /\ WatcherStep([watcher EXCEPT !.pc = "init", !.i = 1, !.uuid = uuid])

\* One of lines 74-77: ABC_WatcherStart, new std::thread, ABC_WatchAddresses
\* or ABC_WatcherConnect; ABC_CHECK_OLD returns from init when the call
\* fails.
WatcherInitStep ==
    /\ watcher.pc = "init"
    /\ LET call == WatcherInitOrder[watcher.i]
       IN  \E ok \in (IF call = "spawn" THEN {TRUE} ELSE BOOLEAN) :
              WatcherStep([watcher EXCEPT
                 !.calls = Append(@, [call |-> call, ok |-> ok,
                                      thread |-> watcher.thread]),
                 !.thread = IF call = "spawn" THEN "running" ELSE @,
                 !.pc = IF ~ok THEN "failed"
                        ELSE IF watcher.i = Len(WatcherInitOrder)
                        THEN "ready" ELSE "init",
                 !.i = watcher.i + 1])

\* watcherThread, lines 51-56: ABC_WatcherLoop returns and the thread ends.
WatcherLoopReturns ==
    /\ watcher.thread = "running"
    /\ WatcherStep([watcher EXCEPT !.thread = "finished"])

\* The destructor is entered, line 60.
WatcherDtorCall ==
    /\ watcher.pc \in {"new", "failed", "ready"}
    /\ WatcherStep([watcher EXCEPT
          !.pc = IF watcher.thread = "null" THEN "destroyed" ELSE "dtor",
          !.i = 1])

\* One of lines 63-65: ABC_WatcherStop, thread_->join(), which returns once
\* the thread has ended, or ABC_WatcherDelete followed by delete thread_
\* (line 66).  The error the ABC_ calls report is ignored.
WatcherDtorStep ==
    /\ watcher.pc = "dtor"
    /\ LET call == WatcherDtorOrder[watcher.i]
           last == watcher.i = Len(WatcherDtorOrder)
       IN  /\ call = "join" => watcher.thread = "finished"
           /\ \E ok \in (IF call = "join" THEN {TRUE} ELSE BOOLEAN) :
                 WatcherStep([watcher EXCEPT
                    !.calls = Append(@, [call |-> call, ok |-> ok,
                                         thread |-> watcher.thread]),
                    !.pc = IF last THEN "destroyed" ELSE "dtor",
                    !.i = watcher.i + 1])

\* Another WatcherThread is constructed.
WatcherConstruct ==
    /\ watcher.pc = "destroyed"
    /\ watcher.n < MaxWatchers
    /\ WatcherStep(NewWatcher(watcher.n + 1))

\* ----------------------------------------------------------- spend outputs
\* src/abcd/spend/Outputs.cpp.  An output is its value in satoshi (uint64_t);
\* its script plays no part in outputsFinalize.
MINIMUM_DUST_THRESHOLD == 4000
Amounts == {0, MINIMUM_DUST_THRESHOLD - 1, MINIMUM_DUST_THRESHOLD,
            MINIMUM_DUST_THRESHOLD + 1}
Addresses == {"1addr", "bad"}
OutputLists == UNION {[1 .. n -> Amounts] : n \in 0 .. MaxOutputs}

\* outputScriptForAddress (lines 40-55) succeeds.
AddressParses(address) == address = "1addr"

\* outputIsDust, lines 57-61.
OutputIsDustAtThreshold(amount) == amount <= MINIMUM_DUST_THRESHOLD
OutputIsDust(amount) == amount < MINIMUM_DUST_THRESHOLD

\* std::sort with the comparison of lines 77-81.
RECURSIVE SortOutputs(_)
InsertOutput(sorted, v) ==
    LET below == SelectSeq(sorted, LAMBDA x : ~(v < x))
        above == SelectSeq(sorted, LAMBDA x : v < x)
    IN  below \o <<v>> \o above
SortOutputs(outputs) ==
    IF outputs = <<>> THEN <<>>
    ELSE InsertOutput(SortOutputs(Tail(outputs)), Head(outputs))

\* outputsFinalize, lines 63-90: the status and the list it leaves.
OutputsFinalize(outputs, change, changeAddress) ==
    IF ~OutputIsDust(change) /\ ~AddressParses(changeAddress)
    THEN [cc |-> ParseError, outputs |-> outputs]
    ELSE LET withChange == IF ~OutputIsDust(change)
                           THEN Append(outputs, change) ELSE outputs
             sorted == SortOutputs(withChange)
         IN  IF \E k \in 1 .. Len(sorted) : OutputIsDust(sorted[k])
             THEN [cc |-> SpendDust, outputs |-> sorted]
             ELSE [cc |-> Ok, outputs |-> sorted]

\* A call of outputsFinalize: the list given, the change and the change
\* address, and once it has returned (done) its status and the list.
SpendInput(outputs, change, changeAddress) ==
    [given |-> outputs, change |-> change, changeAddress |-> changeAddress,
     done |-> FALSE, cc |-> Ok, outputs |-> outputs]
SpendInputs ==
    {SpendInput(o, c, a) : o \in OutputLists, c \in Amounts, a \in Addresses}

Finalize ==
    /\ ~spend.done
    /\ \E r \in {OutputsFinalize(spend.given, spend.change,
                                  spend.changeAddress)} :
          spend' = [spend EXCEPT !.done = TRUE, !.cc = r.cc,
                                 !.outputs = r.outputs]
    /\ UNCHANGED <<loginCore, budget, gbInitialized, urlRet, watcher>>

InitOtherModules ==
    /\ gbInitialized = FALSE
    /\ urlRet = NoURLCall
    /\ watcher = NewWatcher(1)
    /\ spend = SpendInput(<<>>, 0, NoStr)

\* The login core before any operation.
InitLoginCore ==
    /\ disk = [n \in Slots |-> NoSlot]
    /\ server = [l \in L1s |-> NoAcct]
    /\ cache = <<>>
    /\ gCarePackageCache = NULL
    /\ pc = "idle"
    /\ ctx = IdleCtx
    /\ ret = NoRet
    /\ rnd = 0
    /\ nfaults = 0
    /\ nwipes = 0
    /\ created = [u \in Users |-> [MK |-> NULL, syncKey |-> NULL]]
    /\ lockDepth = 0

\* outputsFinalize about to be called with any list, change and address.
InitSpend ==
    /\ InitLoginCore
    /\ budget = MaxOps
    /\ gbInitialized = FALSE
    /\ urlRet = NoURLCall
    /\ watcher = NewWatcher(1)
    /\ spend \in SpendInputs

Init ==
    /\ InitLoginCore
    /\ budget = MaxOps
    /\ InitOtherModules

InitDeep ==
    /\ InitLoginCore
    /\ budget = MaxOpsDeep
    /\ InitOtherModules

\* The steps of each public operation, for callers that pass user names from
\* U, passwords from P and answers from A.
Create(U, P) ==
    \/ \E u \in U, p \in P : CreateCall(u, p)
    \/ CreateDir \/ CreateName \/ CreateServer \/ CreateCare \/ CreateLogin
    \/ CreateSyncDir \/ CreateCache \/ CreateAccount \/ CreateInfo
    \/ CreateRepo \/ CreateSyncRepo \/ CreateActivate

SignIn(U, P) ==
    \/ \E u \in U, p \in P : SignInCall(u, p)
    \/ FetchCare \/ FetchLogin \/ FetchInit \/ FetchKeys \/ FetchSync
    \/ SignInRefresh \/ SignInCheck \/ SignInInfo

SetRecovery(U, P, A) ==
    \/ \E u \in U, p \in P, q \in Questions, a \in A :
          SetRecoveryCall(u, p, q, a)
    \/ SetRecoveryServer \/ SetRecoveryCare \/ SetRecoveryLogin
    \/ SetRecoverySync

ChangePassword(U, P, A) ==
    \/ \E u \in U, p \in P, np \in Passwords :
          ChangePasswordCall(u, p, NoStr, np)
    \/ \E u \in U, a \in A, np \in Passwords :
          ChangePasswordCall(u, NoStr, a, np)
    \/ ChangePasswordServer \/ ChangePasswordWrite \/ ChangePasswordWallet
    \/ ChangePasswordSync

CheckRecoveryAnswers(U, A) ==
    \/ \E u \in U, a \in A : CheckRecoveryAnswersCall(u, a)
    \/ CheckServer \/ CheckInit \/ CheckRepo \/ CheckLocal

Ops(U, P, A) ==
    \/ Create(U, P) \/ SignIn(U, P) \/ SetRecovery(U, P, A)
    \/ ChangePassword(U, P, A)
    \/ \E u \in U : GetRecoveryQuestions(u)
    \/ CheckRecoveryAnswers(U, A)
    \/ ClearKeyCache
    \/ NewDevice

\* One user with every password and every answer.
Next == Ops(OneUser, Passwords, Answers)
Spec == Init /\ [][Next]_vars

\* One user, one password, one answer, one more operation.
NextDeep == Ops(OneUser, OnePassword, OneAnswer)
SpecDeep == InitDeep /\ [][NextDeep]_vars

\* Account creation with the process killed at any point.
NextCrash == Create(OneUser, Passwords) \/ Kill
SpecCrash == Init /\ [][NextCrash]_vars

\* Account creation and the recovery calls, with another thread clearing the
\* key cache.
NextThreads ==
    \/ Create(OneUser, OnePassword)
    \/ SetRecovery(OneUser, OnePassword, OneAnswer)
    \/ \E u \in OneUser : GetRecoveryQuestions(u)
    \/ CheckRecoveryAnswers(OneUser, OneAnswer)
    \/ NewDevice \/ ConcurrentClearKeyCache
SpecThreads == Init /\ [][NextThreads]_vars

\* Account creation and sign-in over a store whose login package gets
\* damaged.
NextCorrupt ==
    \/ Create(OneUser, OnePassword) \/ SignIn(OneUser, Passwords)
    \/ CorruptSyncKey
SpecCorrupt == Init /\ [][NextCorrupt]_vars

\* One device on which only create, setRecovery and changePassword are called.
NextSingle ==
    \/ Create(OneUser, Passwords) \/ SetRecovery(OneUser, Passwords, Answers)
    \/ ChangePassword(OneUser, Passwords, Answers)
SpecSingle == Init /\ [][NextSingle]_vars

\* Account creation, sign-out and the refresh of the login package, called
\* with and without a password.
NextRefresh ==
    \/ Create(OneUser, OnePassword)
    \/ \E u \in OneUser, pw \in {NoStr} \cup Passwords :
          UpdateLoginPackageFromServer(u, pw)
    \/ ClearKeyCache
SpecRefresh == Init /\ [][NextRefresh]_vars

\* Two users who create accounts and sign in on one device.
NextTwoUsers == Create(Users, OnePassword) \/ SignIn(Users, OnePassword)
SpecTwoUsers == Init /\ [][NextTwoUsers]_vars

\* The URL system alone.
NextURL ==
    \/ URLInitialize \/ URLTerminate
    \/ \E szURL \in URLs : URLRequest(szURL) \/ URLRequestString(szURL)
    \/ \E szURL \in URLs, szPostData \in PostData :
          URLPost(szURL, szPostData) \/ URLPostString(szURL, szPostData)
SpecURL == Init /\ [][NextURL]_vars

\* The watcher thread of the command-line tool alone.
NextWatcher ==
    \/ \E uuid \in Uuids : WatcherInitCall(uuid)
    \/ WatcherInitStep \/ WatcherLoopReturns
    \/ WatcherDtorCall \/ WatcherDtorStep \/ WatcherConstruct
SpecWatcher == Init /\ [][NextWatcher]_vars

\* outputsFinalize on every input.
NextSpend == Finalize
SpecSpend == InitSpend /\ [][NextSpend]_vars

\* Account creation and the master key asked for under both of its names.
NextKeys ==
    \/ Create(OneUser, OnePassword)
    \/ \E u \in OneUser, pw \in {NoStr} \cup Passwords,
          keyType \in {"MK", "LP2"} : GetKey(u, pw, keyType)
    \/ ClearKeyCache
SpecKeys == Init /\ [][NextKeys]_vars

\* ================================================================ properties
\* The call that returned last was op, and nothing has run since.
Returned(op) == pc = "idle" /\ ret.op = op
\* The call before it was a successful op for the same user.
Follows(op) == ret.prev.op = op /\ ret.prev.u = ret.u
\* The cache entry of user u in cache c, NoKeys when there is none.
EntryOf(c, u) ==
    IF LoginKeyFromCacheByName(c, u) = 0 THEN NoKeys
    ELSE c[LoginKeyFromCacheByName(c, u)]

\* C1: in every state reached by create, signIn, setRecovery, changePassword,
\* getRecoveryQuestions and checkRecoveryAnswers calls on one installation
\* (any server call or disk write may fail), at most one account directory
\* names a given user.
UniqueSlotPerUser ==
    nwipes = 0 => \A u \in Users : Cardinality(SlotsOf(disk, u)) <= 1

\* C2: when signIn(u, p) returns right after a successful create(u, p), with
\* the server reachable and nothing failing, it returns Ok and the cache entry
\* of u holds the MK generated at create and the hex sync key uploaded at
\* create.
SignInAfterCreate ==
    /\ Returned("signIn") /\ Follows("create") /\ ret.prev.p = ret.p
    /\ ~ret.faulted /\ ~ret.offline
    => /\ ret.cc = Ok
       /\ ~ret.cleared =>
            /\ EntryOf(cache, ret.u).MK = created[ret.u].MK
            /\ EntryOf(cache, ret.u).szRepoAcctKey = created[ret.u].syncKey
            /\ created[ret.u].syncKey = server[L1Of(ret.u)].syncKey
SignInAfterCreateWitness ==
    /\ Returned("signIn") /\ Follows("create") /\ ret.prev.p = ret.p
    /\ ~ret.faulted /\ ~ret.offline /\ ~ret.cleared
    /\ EntryOf(cache, ret.u).MK # NULL
    /\ EntryOf(cache, ret.u).szRepoAcctKey # NULL

\* C3: after a successful changePassword(u, p, p') with p' # p, signIn(u, p')
\* returns Ok and caches the MK generated at create, and signIn with any other
\* password returns BadPassword, with the server reachable or not.
SignInAfterChangePassword ==
    /\ Returned("signIn") /\ Follows("changePassword")
    /\ ret.prev.p # NoStr /\ ret.prev.np # ret.prev.p /\ ~ret.faulted
    => IF ret.p = ret.prev.np
       THEN /\ ret.cc = Ok
            /\ ~ret.cleared => EntryOf(cache, ret.u).MK = created[ret.u].MK
       ELSE ret.cc = BadPassword
SignInAfterChangePasswordWitness ==
    /\ Returned("signIn") /\ Follows("changePassword")
    /\ ret.prev.p # NoStr /\ ret.prev.np # ret.prev.p /\ ~ret.faulted
    /\ ret.offline /\ ret.p = ret.prev.np /\ ~ret.cleared
    /\ EntryOf(cache, ret.u).MK # NULL

\* The steps of a changePassword call that go on, or return Ok.
ChangePasswordProceeds ==
    \/ pc = "idle" /\ pc' = "chpw_server"
    \/ pc = "chpw_server" /\ pc' = "chpw_write"
    \/ pc = "chpw_write" /\ pc' = "chpw_wallet"
    \/ pc = "chpw_wallet" /\ pc' = "chpw_sync"
    \/ pc = "chpw_sync" /\ pc' = "idle" /\ ret'.cc = Ok
SameEnvelope(old, new) == new = old
SamePlaintextAndKey(old, new) ==
    EnvPlain(new) = EnvPlain(old) /\ EnvKey(new) = EnvKey(old)
\* A login package that was replaced still wraps the same MK and the same
\* sync key.
LoginPackageKept(old, new, Keep(_, _)) ==
    new # old => /\ old # NULL
                 /\ new # NULL
                 /\ Keep(LoginESyncKey(old), LoginESyncKey(new))
                 /\ EnvPlain(LoginEMK(new)) = EnvPlain(LoginEMK(old))
\* A cached record keeps every key it held, the password and P, LP, LP1, LP2
\* apart; keys it did not hold yet may be filled in.
KeysKept(old, new) ==
    /\ new.accountNum = old.accountNum /\ new.freed = old.freed
    /\ \A f \in {"szUserName", "L", "LRA"} : old[f] = NoStr \/ new[f] = old[f]
    /\ \A f \in {"szRepoAcctKey", "pSNRP1", "pSNRP2", "pSNRP3", "pSNRP4",
                 "MK", "L1", "LRA1", "L4", "RQ", "LRA3"} :
          old[f] = NULL \/ new[f] = old[f]
\* What one step leaves alone: in the store and on the server everything but
\* the login package (and the server's LP1), in the cache every key held
\* before but the password keys, and the care package kept for recovery.
ChangePasswordFrame(Keep(_, _)) ==
    /\ \A n \in Slots :
          /\ disk'[n] = [disk[n] EXCEPT !.login = disk'[n].login]
          /\ LoginPackageKept(disk[n].login, disk'[n].login, Keep)
    /\ \A l \in L1s :
          /\ server'[l] = [server[l] EXCEPT !.LP1 = server'[l].LP1,
                                            !.login = server'[l].login]
          /\ LoginPackageKept(server[l].login, server'[l].login, Keep)
    /\ Len(cache') >= Len(cache)
    /\ \A i \in 1 .. Len(cache) : KeysKept(cache[i], cache'[i])
    /\ gCarePackageCache' = gCarePackageCache
    /\ pc' = "idle" =>
          /\ EntryOf(cache', ret'.u).MK = created[ret'.u].MK
          /\ EntryOf(cache', ret'.u).szRepoAcctKey = created[ret'.u].syncKey

CheckAfterSetRecovery ==
    /\ Returned("checkRecoveryAnswers") /\ Follows("setRecovery")
    /\ ret.hadSlot /\ ~ret.faulted
    => IF ret.a = ret.prev.a THEN ret.cc = Ok /\ ret.valid
       ELSE \/ ret.cc = Ok /\ ~ret.valid
            \/ ret.cc = BadPassword
CheckAfterSetRecoveryWitness ==
    /\ Returned("checkRecoveryAnswers") /\ Follows("setRecovery")
    /\ ret.hadSlot /\ ~ret.faulted
    /\ ret.prev.cleared /\ ~ret.hadLRA /\ ret.a = ret.prev.a /\ ret.valid

\* C6: a changePassword(u, no password, answers a, p') sends the server the
\* LRA1 of the answers and no old LP1; right after a successful setRecovery
\* with the answers a, nothing failing, it returns Ok; and a signIn(u, p')
\* right after it returns Ok and caches the MK generated at create.
ChangePasswordByAnswers ==
    /\ pc = "chpw_server" /\ ctx.p = NoStr
       => /\ ctx.oldLP1 = NULL
          /\ ctx.LRA1 = Scrypt(BufAppend(ctx.u, ctx.a), SNRPForServer)
    /\ /\ Returned("changePassword") /\ ret.p = NoStr
       /\ Follows("setRecovery") /\ ret.prev.a = ret.a /\ ~ret.faulted
       => ret.cc = Ok
    /\ /\ Returned("signIn") /\ Follows("changePassword")
       /\ ret.prev.p = NoStr /\ ret.prev.np = ret.p /\ ~ret.faulted
       => /\ ret.cc = Ok
          /\ ~ret.cleared => EntryOf(cache, ret.u).MK = created[ret.u].MK
ChangePasswordByAnswersWitness ==
    /\ Returned("signIn") /\ Follows("changePassword")
    /\ ret.prev.p = NoStr /\ ret.prev.np = ret.p /\ ~ret.faulted
    /\ ~ret.cleared
    /\ EntryOf(cache, ret.u).MK # NULL

\* C7: when create(u, p) returns an error after its local availability check
\* passed, no account directory names u.
CreateFailureRemovesSlot ==
    Returned("create") /\ ret.cc # Ok /\ ~ret.hadSlot
    => SlotsOf(disk, ret.u) = {}
CreateFailureRemovesSlotWitness ==
    /\ Returned("create") /\ ret.cc = SysError /\ ~ret.hadSlot
    /\ server[L1Of(ret.u)].exists
    /\ SlotsOf(disk, ret.u) = {}

\* C8: when signIn(u, p) started without an account directory for u and
\* returns an error, no account directory names u, whichever step failed.
SignInFailureLeavesNoSlot ==
    Returned("signIn") /\ ret.cc # Ok /\ ~ret.hadSlot
    => SlotsOf(disk, ret.u) = {}

\* A create(u, .) call starts: it returns at once or goes on to its next step.
CreateStarts(u) ==
    /\ pc = "idle"
    /\ budget' = budget - 1
    /\ \/ pc' = "idle" /\ ret'.op = "create" /\ ret'.u = u /\ ~ret'.cleared
       \/ pc' = "create_dir" /\ ctx'.u = u

\* C9: a create for a user name that an account directory already names
\* returns AccountAlreadyExists at once, and the store, the key cache, the
\* server and the care package kept for recovery stay as they were.
CreateOfExistingUser ==
    [][\A u \in Users :
          CreateStarts(u) /\ SlotsOf(disk, u) # {}
          => /\ pc' = "idle"
             /\ ret'.cc = AccountAlreadyExists
             /\ UNCHANGED <<disk, cache, server, gCarePackageCache>>]_vars
CreateOfExistingUserWitness ==
    /\ Returned("create") /\ ret.cc = AccountAlreadyExists /\ ret.hadSlot
    /\ ~ret.cleared
    /\ SlotsOf(disk, ret.u) # {}
    /\ cache # <<>>

\* C10: when the process is killed during create, no account directory holds
\* exactly one of CarePackage.json and LoginPackage.json.
KilledCreateLeavesBothOrNone ==
    ret.op = "kill"
    => \A n \in Slots :
          disk[n].exists => ((disk[n].care = NULL) <=> (disk[n].login = NULL))

\* C11: while create has not yet called ABC_LoginServerCreate, it has written
\* nothing to the store: no account directory has been made for the call and
\* none names the user.
CreateWritesAfterServerCreate ==
    pc \in {"create_dir", "create_name", "create_server"}
    => ctx.dir = NoDir /\ SlotsOf(disk, ctx.u) = {}

\* C12: when create returns Ok, the user's directory has its sync directory
\* synced, the server has activated the account, and the cache entry of the
\* user holds MK and the sync key; when a signIn that started without a
\* directory returns Ok, the directory it made has its sync directory synced.
SuccessLeavesSyncReady ==
    /\ Returned("create") /\ ret.cc = Ok
       => /\ SlotsOf(disk, ret.u) # {}
          /\ \A n \in SlotsOf(disk, ret.u) : disk[n].sync = "synced"
          /\ server[L1Of(ret.u)].active
          /\ ~ret.cleared => /\ EntryOf(cache, ret.u).MK # NULL
                             /\ EntryOf(cache, ret.u).szRepoAcctKey # NULL
    /\ Returned("signIn") /\ ret.cc = Ok /\ ~ret.hadSlot
       => /\ SlotsOf(disk, ret.u) # {}
          /\ \A n \in SlotsOf(disk, ret.u) : disk[n].sync = "synced"
SuccessLeavesSyncReadyWitness ==
    /\ Returned("signIn") /\ ret.cc = Ok /\ ~ret.hadSlot
    /\ ret.prev.op = "none"
    /\ \E n \in SlotsOf(disk, ret.u) : disk[n].sync = "synced"

\* The directory of user u holds both packages.
HasPackages(d, u) ==
    /\ LoginDirGetNumber(d, u) >= 0
    /\ d[LoginDirGetNumber(d, u)].care # NULL
    /\ d[LoginDirGetNumber(d, u)].login # NULL
\* Ok when the password p opens the EMK of the user's LoginPackage.json under
\* the SNRP2 of the CarePackage.json, BadPassword when it does not.
LocalPasswordCC(d, u, p) ==
    IF DecryptCC(LoginEMK(d[LoginDirGetNumber(d, u)].login),
                 Scrypt(BufAppend(u, p),
                        CareSNRP2(d[LoginDirGetNumber(d, u)].care))) = Ok
    THEN Ok ELSE BadPassword
\* What the refresh step of signIn reports as it ends.
RefreshWasOffline ==
    pc = "signin_refresh" /\ IF pc' = "idle" THEN ret'.offline ELSE ctx'.offline
RefreshWasRefused ==
    pc = "signin_refresh" /\ IF pc' = "idle" THEN ret'.refused ELSE ctx'.refused

\* C13: a signIn for a user with a directory whose refresh could not reach
\* the server, nothing else failing, returns Ok when the password opens the
\* local EMK and BadPassword when it does not, and no step of it from the
\* refresh on changes the store.
SignInOfflineUsesLocalPackages ==
    /\ [](/\ Returned("signIn") /\ ret.hadSlot /\ ret.offline
           /\ ~ret.faulted /\ HasPackages(disk, ret.u)
           => ret.cc = LocalPasswordCC(disk, ret.u, ret.p))
    /\ [][RefreshWasOffline \/ (ctx.op = "signIn" /\ ctx.offline)
          => UNCHANGED disk]_vars
SignInOfflineUsesLocalPackagesWitness ==
    /\ Returned("signIn") /\ ret.hadSlot /\ ret.offline /\ ~ret.faulted
    /\ HasPackages(disk, ret.u)
    /\ ret.cc = BadPassword

\* C14: the steps that call ABC_GeneralUpdateInfo never end signIn or create
\* with an error, never clear the key cache and never remove a directory,
\* also when the call fails.
UpdateInfoFailureIsSwallowed ==
    [][/\ pc = "signin_info"
          => ret'.cc = Ok /\ cache' = cache /\ disk' = disk
       /\ pc = "create_info"
          => pc' = "create_repo" /\ cache' = cache /\ disk' = disk]_vars

\* C15: a signIn for a user with a directory whose refresh the server
\* answered with BadPassword returns BadPassword with the key cache empty,
\* and the refresh step leaves the store as it was.
RefusedRefreshEndsSignIn ==
    /\ [](Returned("signIn") /\ ret.refused
           => ret.cc = BadPassword /\ cache = <<>>)
    /\ [][RefreshWasRefused => pc' = "idle" /\ UNCHANGED disk]_vars
RefusedRefreshEndsSignInWitness ==
    /\ Returned("signIn") /\ ret.refused /\ ret.hadSlot
    /\ HasPackages(disk, ret.u)
    /\ LocalPasswordCC(disk, ret.u, ret.p) = Ok

\* C16: when signIn, setRecovery or changePassword returns BadPassword for a
\* user, the key cache holds no entry of that user.
BadPasswordEvictsEntry ==
    /\ pc = "idle"
    /\ ret.op \in {"signIn", "setRecovery", "changePassword"}
    /\ ret.cc = BadPassword
    => LoginKeyFromCacheByName(cache, ret.u) = 0

\* C17: after ABC_LoginClearKeyCache no secret field of a record it released
\* is still held.
ClearKeyCacheReleasesSecrets == ret.cleared => ret.held = {}

\* C18: while a public operation is between two of its steps, no other thread
\* gets the lock and changes the key cache.
OperationsNeverInterleave ==
    [][pc # "idle" /\ pc' = pc /\ ctx' = ctx => cache' = cache]_vars

\* The ESyncKey of the user's LoginPackage.json does not decrypt under the L4
\* of the user's CarePackage.json.
SyncKeyCorrupt(d, u) ==
    /\ HasPackages(d, u)
    /\ DecryptCC(LoginESyncKey(d[LoginDirGetNumber(d, u)].login),
                 Scrypt(u, CareSNRP4(d[LoginDirGetNumber(d, u)].care)))
          = DecryptFailure

\* C19: a signIn over a login package whose ESyncKey does not decrypt under
\* L4, nothing else failing, returns Error.
CorruptSyncKeyIsInternalError ==
    /\ Returned("signIn") /\ ret.hadSlot /\ ~ret.faulted
    /\ SyncKeyCorrupt(disk, ret.u)
    => ret.cc = Error

\* C20: no public operation returns DecryptFailure.
NoRawDecryptFailure == pc = "idle" => ret.cc # DecryptFailure

\* The CarePackage that getRecoveryQuestions(u) reads: the CarePackage.json of
\* the account directory when u has one, the document the server holds under
\* L1 otherwise; NULL when there is neither.
CareRead(d, s, u) ==
    IF LoginDirExists(d, u) THEN d[LoginDirGetNumber(d, u)].care
    ELSE IF s[L1Of(u)].exists THEN s[L1Of(u)].care
    ELSE NULL

\* C21: getRecoveryQuestions on an account whose CarePackage has no ERQ,
\* nothing failing, returns NoRecoveryQuestions, with a local directory and
\* with the CarePackage fetched from the server alike.
NoERQGivesNoRecoveryQuestions ==
    /\ Returned("getRecoveryQuestions") /\ ~ret.faulted
    /\ ret.hadSlot => HasPackages(disk, ret.u)
    /\ CareRead(disk, server, ret.u) # NULL
    /\ CareERQ(CareRead(disk, server, ret.u)) = NULL
    => ret.cc = NoRecoveryQuestions

\* C22: when getRecoveryQuestions(u) returns for a user with a directory, the
\* server was not asked and gCarePackageCache is empty; for a user without
\* one the server was asked, gCarePackageCache is the CarePackage the server
\* holds under L1 whenever the server handed it out, and u still has no
\* directory.
GetRecoveryQuestionsPendingCare ==
    Returned("getRecoveryQuestions") =>
        IF ret.hadSlot
        THEN ~ret.remote /\ gCarePackageCache = NULL
        ELSE /\ ret.remote
             /\ SlotsOf(disk, ret.u) = {}
             /\ gCarePackageCache =
                    IF ~ret.faulted /\ server[L1Of(ret.u)].exists
                    THEN server[L1Of(ret.u)].care ELSE NULL
GetRecoveryQuestionsPendingCareWitness ==
    /\ Returned("getRecoveryQuestions") /\ ~ret.hadSlot /\ ret.remote
    /\ gCarePackageCache # NULL
    /\ gCarePackageCache = server[L1Of(ret.u)].care
    /\ CareERQ(gCarePackageCache) # NULL
    /\ ret.cc = Ok

\* The server hands out the LoginPackage of u for the answers a
\* (ABC_LoginServerGetLoginPackage with L1, no LP1, and LRA1).
ServerAcceptsAnswers(s, u, a) ==
    ServerGetLoginPackageCC(s, L1Of(u), NULL,
                            Scrypt(BufAppend(u, a), SNRPForServer)) = Ok

\* C23: when checkRecoveryAnswers(u, a) returns after a call made with a
\* CarePackage in gCarePackageCache and no directory for u, nothing failing:
\* if the server accepts the answers, the call returned Ok with valid = TRUE,
\* u has a directory holding the CarePackage and the LoginPackage the server
\* holds, its sync directory is synced and gCarePackageCache is empty; if the
\* server rejects them, u has no directory and gCarePackageCache is kept.
RecoverOnNewDevice ==
    /\ Returned("checkRecoveryAnswers") /\ ret.remote /\ ~ret.hadSlot
    /\ ~ret.faulted
    => IF ServerAcceptsAnswers(server, ret.u, ret.a)
       THEN /\ ret.cc = Ok /\ ret.valid
            /\ gCarePackageCache = NULL
            /\ SlotsOf(disk, ret.u) # {}
            /\ \A n \in SlotsOf(disk, ret.u) :
                  /\ disk[n].care = server[L1Of(ret.u)].care
                  /\ disk[n].login = server[L1Of(ret.u)].login
                  /\ disk[n].sync = "synced"
       ELSE /\ ret.cc # Ok /\ ~ret.valid
            /\ SlotsOf(disk, ret.u) = {}
            /\ gCarePackageCache # NULL
RecoverOnNewDeviceWitness ==
    /\ Returned("checkRecoveryAnswers") /\ ret.remote /\ ~ret.hadSlot
    /\ ~ret.faulted /\ ret.cc = Ok /\ ret.valid
    /\ ServerAcceptsAnswers(server, ret.u, ret.a)
    /\ \E n \in SlotsOf(disk, ret.u) : disk[n].sync = "synced"
RecoverOnNewDeviceRejectedWitness ==
    /\ Returned("checkRecoveryAnswers") /\ ret.remote /\ ~ret.hadSlot
    /\ ~ret.faulted /\ ret.cc = BadPassword
    /\ server[L1Of(ret.u)].LRA1 # NULL
    /\ ~ServerAcceptsAnswers(server, ret.u, ret.a)
    /\ gCarePackageCache # NULL

\* C24: on one device, whenever no create, setRecovery or changePassword call
\* is running (any server call or disk write of the calls made so far may
\* have failed), the LoginPackage.json and CarePackage.json of every account
\* directory are the packages the server holds for its user.
LocalPackagesMatchServer ==
    pc = "idle" =>
        \A u \in Users : \A n \in SlotsOf(disk, u) :
            /\ disk[n].care = server[L1Of(u)].care
            /\ disk[n].login = server[L1Of(u)].login

\* C25: the server activates an account only in the step of create that
\* follows the creation and the successful first sync of the sync directory;
\* that step is the last one of create, and when the activation fails the
\* account directory is removed, the account stays inactive and create returns
\* the error.
ActivateIsLastStepOfCreate ==
    [][/\ (\E l \in L1s : server'[l].active /\ ~server[l].active)
          => pc = "create_activate" /\ ret'.cc = Ok
       /\ pc = "create_activate"
          => /\ ctx.op = "create"
             /\ disk[ctx.dir].sync = "synced"
             /\ pc' = "idle" /\ ret'.op = "create"
             /\ ret'.cc = Ok => server'[L1Of(ctx.u)].active /\ disk' = disk
             /\ ret'.cc # Ok => /\ ~disk'[ctx.dir].exists
                                /\ SlotsOf(disk', ctx.u) = {}
                                /\ server' = server]_vars
ActivateIsLastStepOfCreateWitness ==
    /\ Returned("create") /\ ret.cc = Ok /\ ~ret.cleared
    /\ server[L1Of(ret.u)].active
    /\ \E n \in SlotsOf(disk, ret.u) : disk[n].sync = "synced"

\* A signIn(u, .) call starts: it returns at once or goes on to its next step.
SignInStarts(u) ==
    /\ pc = "idle"
    /\ budget' = budget - 1
    /\ \/ pc' = "idle" /\ ret'.op = "signIn" /\ ret'.u = u /\ ~ret'.cleared
       \/ pc' \in {"fetch_care", "signin_refresh"} /\ ctx'.op = "signIn"
          /\ ctx'.u = u

\* C26 as stated: the first step of signIn(u, p) leaves the cache entry of
\* every other user name as it was.
SignInKeepsOtherEntries ==
    [][\A u \in Users :
          SignInStarts(u)
          => \A v \in Users \ {u} : EntryOf(cache', v) = EntryOf(cache, v)]_vars

\* C26: the first step of signIn(u, p) empties the key cache: after it no
\* other user name has an entry, and the entry of u, if the step made one
\* anew, holds none of the keys of an earlier call (no MK, no LP2, no
\* recovery answers).
SignInEvictsEveryEntry ==
    [][\A u \in Users :
          SignInStarts(u)
          => /\ \A v \in Users \ {u} : LoginKeyFromCacheByName(cache', v) = 0
             /\ Len(cache') <= 1
             /\ EntryOf(cache', u).MK = NULL
             /\ EntryOf(cache', u).LP2 = NULL
             /\ EntryOf(cache', u).LRA = NoStr]_vars
SignInEvictsEveryEntryWitness ==
    /\ pc = "signin_refresh" /\ ctx.op = "signIn"
    /\ Len(cache) = 1 /\ cache[1].szUserName = ctx.u
    /\ ret.op = "create" /\ ret.cc = Ok /\ ret.u # ctx.u
    /\ LoginDirExists(disk, ret.u)

\* The call that the step starts: its operation, user name and password.
Started ==
    IF pc' = "idle" THEN [op |-> ret'.op, u |-> ret'.u, p |-> ret'.p]
    ELSE [op |-> ctx'.op, u |-> ctx'.u, p |-> ctx'.p]
\* A setRecovery or changePassword call starts, nothing failing, with a
\* password that differs from the one the cache entry of its user holds.
StartsWithOtherPassword ==
    /\ pc = "idle" /\ budget' = budget - 1 /\ nfaults' = nfaults
    /\ pc' = "idle" => ~ret'.cleared
    /\ Started.op \in {"setRecovery", "changePassword"}
    /\ Started.p # NoStr
    /\ LoginKeyFromCacheByName(cache, Started.u) # 0
    /\ EntryOf(cache, Started.u).szPassword # NoStr
    /\ EntryOf(cache, Started.u).szPassword # Started.p

Kept(old, new, none) == old = none \/ new = none \/ new = old

\* C28: no step replaces LRA, LRA1, LRA3, RQ, LP1 or LP2 of a cache entry by
\* a different value, except that the first step of changePassword replaces
\* LP1 and LP2.  (The first step of signIn empties the cache and fills a new
\* entry: nothing memoized is left for it to replace.)
NoSilentReplacement ==
    [][\A u \in Users :
          \/ pc = "idle" /\ Started.op = "signIn"
          \/ /\ Kept(EntryOf(cache, u).LRA, EntryOf(cache', u).LRA, NoStr)
             /\ Kept(EntryOf(cache, u).LRA1, EntryOf(cache', u).LRA1, NULL)
             /\ Kept(EntryOf(cache, u).LRA3, EntryOf(cache', u).LRA3, NULL)
             /\ Kept(EntryOf(cache, u).RQ, EntryOf(cache', u).RQ, NULL)
             /\ \/ pc = "idle" /\ Started.op = "changePassword"
                \/ /\ Kept(EntryOf(cache, u).LP1, EntryOf(cache', u).LP1,
                            NULL)
                   /\ Kept(EntryOf(cache, u).LP2, EntryOf(cache', u).LP2,
                            NULL)]_vars

\* C29: setRecovery writes CarePackage.json and LoginPackage.json only once
\* the server holds the new packages, syncs only once both files hold them,
\* and up to and including its server call it writes nothing to the store.
SetRecoveryWritesAfterServer ==
    /\ [](pc \in {"setrec_care", "setrec_login", "setrec_sync"}
            => /\ server[L1Of(ctx.u)].care = ctx.care
               /\ server[L1Of(ctx.u)].login = ctx.login)
    /\ [](pc = "setrec_sync"
            => /\ disk[cache[ctx.idx].accountNum].care = ctx.care
               /\ disk[cache[ctx.idx].accountNum].login = ctx.login)
    /\ [][(pc = "idle" /\ Started.op = "setRecovery") \/ pc = "setrec_server"
            => disk' = disk]_vars
SetRecoveryWritesAfterServerWitness ==
    /\ pc = "setrec_sync"
    /\ disk[cache[ctx.idx].accountNum].care = ctx.care
    /\ CareERQ(ctx.care) # NULL
    /\ server[L1Of(ctx.u)].LRA1 # NULL

\* C30: changePassword writes LoginPackage.json only once the server holds
\* the new package, clears the wallet cache only once the file holds it, and
\* syncs only after that; up to and including its server call it writes
\* nothing to the store; and whenever it returns an error the key cache is
\* empty.
ChangePasswordWritesAfterServer ==
    /\ [](pc \in {"chpw_write", "chpw_wallet", "chpw_sync"}
            => server[L1Of(ctx.u)].login = ctx.login)
    /\ [](pc \in {"chpw_wallet", "chpw_sync"}
            => disk[ctx.dir].login = ctx.login)
    /\ [](Returned("changePassword") /\ ret.cc # Ok => cache = <<>>)
    /\ [][/\ pc' = "chpw_sync" => pc \in {"chpw_wallet", "chpw_sync"}
          /\ pc' = "chpw_wallet" => pc \in {"chpw_write", "chpw_wallet"}
          /\ (pc = "idle" /\ Started.op = "changePassword")
                \/ pc = "chpw_server"
             => disk' = disk]_vars
ChangePasswordWritesAfterServerWitness ==
    /\ Returned("changePassword") /\ ret.cc = ServerError /\ ret.faulted
    /\ cache = <<>>
    /\ HasPackages(disk, ret.u)
    /\ disk[LoginDirGetNumber(disk, ret.u)].login = server[L1Of(ret.u)].login
    /\ server[L1Of(ret.u)].active

\* C31: when ABC_LoginUpdateLoginPackageFromServer is called without a
\* password and the cache entry of the user holds none, it returns an error
\* and no LP1 has been passed to the server.
NoLP1WithoutPassword ==
    /\ Returned("updateLoginPackage") /\ ~ret.cleared /\ ret.p = NoStr
    /\ LoginKeyFromCacheByName(cache, ret.u) # 0
    /\ EntryOf(cache, ret.u).szPassword = NoStr
    => ret.cc # Ok /\ ret.sent = NULL

\* The recovery fields of two key records are the same.
SameRecoveryFields(k1, k2) ==
    /\ k1.LRA = k2.LRA /\ k1.LRA1 = k2.LRA1 /\ k1.LRA3 = k2.LRA3
    /\ k1.RQ = k2.RQ

\* C32: when setRecovery returns an error (no account directory or a wrong
\* password at once; a server refusal, an unreachable server, a failed write
\* or a failed sync later), LRA, LRA1, LRA3 and RQ of the cache entry are what
\* they were when the call got the entry.
FailedSetRecoveryKeepsAnswers ==
    [][/\ /\ pc = "idle" /\ pc' = "idle" /\ budget' = budget - 1
          /\ ~ret'.cleared /\ ret'.op = "setRecovery"
          /\ ret'.cc \in {AccountDoesNotExist, BadPassword}
          => SameRecoveryFields(EntryOf(cache', ret'.u), EntryOf(cache, ret'.u))
       /\ /\ pc \in {"setrec_server", "setrec_care", "setrec_login",
                      "setrec_sync"}
          /\ pc' = "idle" /\ ret'.cc # Ok
          => SameRecoveryFields(EntryOf(cache', ctx.u), ctx.keys)]_vars

\* C33: checkRecoveryAnswers(u, a) writes the care package kept in
\* gCarePackageCache into an account directory only when u had no directory
\* and the care package is the one the server holds for u.
PendingCareOnlyForItsUser ==
    [][pc = "check_init" /\ disk' # disk
       => /\ ~ctx.hadSlot
          /\ gCarePackageCache = server[L1Of(ctx.u)].care]_vars

\* C34: when a create(u, p) for a user without a directory returns an error,
\* the key cache has no entry for u and no slot of the cache array points at
\* a record that has been freed.
FailedCreateLeavesNoDanglingEntry ==
    Returned("create") /\ ret.cc # Ok /\ ~ret.hadSlot /\ ~ret.cleared
    => /\ LoginKeyFromCacheByName(cache, ret.u) = 0
       /\ \A i \in 1 .. Len(cache) : ~cache[i].freed

\* C35: when checkRecoveryAnswers(u, a), having written a new account
\* directory for u from the care package in gCarePackageCache, fails in the
\* step that caches the keys and sets up the sync directory, no account
\* directory names u when it returns.
FailedRecoveryLeavesNoSlot ==
    [][pc = "check_repo" /\ ~ctx.hadSlot /\ pc' = "idle" /\ ret'.cc # Ok
       => SlotsOf(disk', ctx.u) = {}]_vars

URLRequests == {"request", "requestString", "post", "postString"}
URLInitializedBetweenInitializeAndTerminate ==
    [][urlRet'.n # urlRet.n
       => /\ gbInitialized' =
                (IF urlRet'.op = "initialize"
                 THEN gbInitialized \/ urlRet'.cc = Ok
                 ELSE IF urlRet'.op = "terminate" THEN FALSE
                 ELSE gbInitialized)
          /\ urlRet'.op = "initialize" /\ gbInitialized
             => urlRet'.cc = Reinitialization /\ gbInitialized'
          /\ urlRet'.op \in URLRequests /\ ~gbInitialized
             => urlRet'.cc = NotInitialized /\ ~urlRet'.performed]_vars

\* C38: the calls made for a WatcherThread are a prefix of start, spawn,
\* watch, connect followed by a prefix of stop, join, delete; no call of
\* init follows a failed one; the destructor makes its calls only when the
\* thread was spawned, and then all three; join returns, and the watcher is
\* deleted, only once the thread has ended.
CallNames == [k \in 1 .. Len(watcher.calls) |-> watcher.calls[k].call]
WatcherCallsInOrder ==
    /\ \E i \in 0 .. 4, j \in 0 .. 3 :
          /\ CallNames = SubSeq(<<"start", "spawn", "watch", "connect">>, 1, i)
                         \o SubSeq(<<"stop", "join", "delete">>, 1, j)
          /\ j > 0 => i >= 2
          /\ watcher.pc = "destroyed" => j = (IF i >= 2 THEN 3 ELSE 0)
          /\ \A k \in 1 .. i - 1 : watcher.calls[k].ok
    /\ \A k \in 1 .. Len(watcher.calls) :
          watcher.calls[k].call \in {"join", "delete"}
          => watcher.calls[k].thread = "finished"
WatcherCallsInOrderWitness ==
    /\ watcher.pc = "destroyed"
    /\ CallNames = <<"start", "spawn", "watch", "stop", "join", "delete">>
    /\ ~watcher.calls[3].ok

\* C39: once outputsFinalize has returned, the list is the list given with
\* the change appended exactly when the change is at least 4000; when it
\* returned success the list is in non-decreasing order of value and holds
\* no value below 4000; when it returned SpendDust the list holds a value
\* below 4000.
CountOf(outputs, v) == Cardinality({k \in DOMAIN outputs : outputs[k] = v})
ChangeAppended ==
    \A v \in Amounts :
       CountOf(spend.outputs, v)
          = CountOf(spend.given, v) + (IF v = spend.change THEN 1 ELSE 0)
NothingAppended ==
    \A v \in Amounts : CountOf(spend.outputs, v) = CountOf(spend.given, v)
FinalizedAsStated ==
    /\ spend.cc = Ok
       => /\ \A k \in 1 .. Len(spend.outputs) - 1 :
                spend.outputs[k] <= spend.outputs[k + 1]
          /\ \A k \in 1 .. Len(spend.outputs) : spend.outputs[k] >= 4000
    /\ spend.cc = SpendDust
       => \E k \in 1 .. Len(spend.outputs) : spend.outputs[k] < 4000
ChangeAppendedFromThreshold ==
    spend.done
    => /\ IF spend.change >= 4000 THEN ChangeAppended ELSE NothingAppended
       /\ FinalizedAsStated

\* C39, amended: the change is appended exactly when it is at least 4000 and
\* the change address parses; with a change of at least 4000 and an address
\* that does not parse, outputsFinalize returns ParseError and leaves the
\* list as it was given.
ChangeAppendedWhenAddressParses ==
    spend.done
    => /\ IF spend.change >= 4000 /\ spend.changeAddress = "1addr"
          THEN ChangeAppended ELSE NothingAppended
       /\ spend.change >= 4000 /\ spend.changeAddress # "1addr"
          => spend.cc = ParseError /\ spend.outputs = spend.given
       /\ FinalizedAsStated
ChangeAppendedWitness ==
    /\ spend.done /\ spend.cc = Ok
    /\ spend.change = 4000
    /\ Len(spend.given) = 2 /\ spend.given[1] > spend.given[2]
    /\ spend.outputs = <<4000, 4000, 4001>>

\* C40: ABC_LoginGetKey asked for ABC_LoginKey_MK or ABC_LoginKey_LP2 on a
\* cache entry it could use returns Error when the entry holds no MK, and
\* succeeds handing back the entry's MK when it holds one.
GetKeyGivesMKForMKAndLP2 ==
    /\ Returned("getKey") /\ ~ret.cleared
    /\ ret.keyType \in {"MK", "LP2"}
    /\ LoginKeyFromCacheByName(cache, ret.u) # 0
    /\ ret.p \in {NoStr, EntryOf(cache, ret.u).szPassword}
    => IF EntryOf(cache, ret.u).MK = NULL
       THEN ret.cc = Error /\ ret.key = NULL
       ELSE ret.cc = Ok /\ ret.key = EntryOf(cache, ret.u).MK
GetKeyGivesMKForLP2Witness ==
    /\ Returned("getKey") /\ ~ret.cleared
    /\ ret.keyType = "LP2" /\ ret.cc = Ok
    /\ ret.key # NULL
    /\ ret.key = created[ret.u].MK
    /\ ret.key # EntryOf(cache, ret.u).LP2

====
